---- MODULE Spec2Model ----
(***************************************************************************)
(* The gateway S1 of the distributed file store (src/S1.c) with the        *)
(* storage nodes S2, S3, S4 (src/S2.c, src/S3.c, src/S4.c), seen from one  *)
(* client connection.  Path names are sequences of characters, so that the *)
(* string functions of the code (strrchr, strstr, strncmp) are computed.   *)
(* What is written to the client socket is kept as the sequence of the     *)
(* send() calls of the current request.                                    *)
(***************************************************************************)
EXTENDS Integers, Sequences, FiniteSets, TLC

(* Ports: what S1 connects to, and what each node listens on. *)
PORT_S2 == 6072
PORT_S3 == 6073
PORT_S4 == 6074
S2_LISTEN == 6072
S3_LISTEN == 6056
S4_LISTEN == 6074
BUFFER_SIZE == 1024

(* Longest file content of the model, in bytes. *)
MaxLen == 2

Nodes == {"S2", "S3", "S4"}

ListenPort(n) ==
  CASE n = "S2" -> S2_LISTEN
    [] n = "S3" -> S3_LISTEN
    [] n = "S4" -> S4_LISTEN

(* ---------------------------------------------------------------------- *)
(* Strings of the C code, as sequences of characters.                      *)
(* ---------------------------------------------------------------------- *)
Drop(s, n) == SubSeq(s, n + 1, Len(s))
Take(s, n) == SubSeq(s, 1, n)

(* strncmp(s, p, Len(p)) == 0 *)
StartsWith(s, p) == Len(s) >= Len(p) /\ Take(s, Len(p)) = p

(* strstr(s, p): the index of the first occurrence of p in s, 0 for NULL. *)
StrStr(s, p) ==
  LET hits == {i \in 1..(Len(s) - Len(p) + 1) : SubSeq(s, i, i + Len(p) - 1) = p}
  IN  IF hits = {} THEN 0 ELSE CHOOSE i \in hits : \A j \in hits : i <= j

(* strrchr(s, c): the index of the last occurrence of c in s, 0 for NULL. *)
StrRChr(s, c) ==
  LET hits == {i \in 1..Len(s) : s[i] = c}
  IN  IF hits = {} THEN 0 ELSE CHOOSE i \in hits : \A j \in hits : i >= j

(* The text from the last '.' on (".pdf"), <<>> when there is no '.'. *)
DotExt(s) == IF StrRChr(s, ".") = 0 THEN <<>> ELSE Drop(s, StrRChr(s, ".") - 1)

(* dirname(3) of a path that holds a '/'. *)
DirName(s) == Take(s, StrRChr(s, "/") - 1)
BaseName(s) == Drop(s, StrRChr(s, "/"))

Slash == <<"/">>
EXT_C == <<".", "c">>
EXT_PDF == <<".", "p", "d", "f">>
EXT_TXT == <<".", "t", "x", "t">>
EXT_ZIP == <<".", "z", "i", "p">>
TOK_S1 == <<"~", "S", "1">>
STR_S1 == <<"S", "1">>
STR_S1S == <<"S", "1", "/">>
DIR_S1 == <<"S", "1">>
DIR_S2 == <<"S", "2">>
DIR_S3 == <<"S", "3">>
DIR_S4 == <<"S", "4">>

(* ---------------------------------------------------------------------- *)
(* The fields of the wire: one record per send() call.                     *)
(* ---------------------------------------------------------------------- *)
L(v) == [k |-> "long", v |-> v]            \* send(sock, &x, sizeof(long))
I(v) == [k |-> "int", v |-> v]             \* send(sock, &x, sizeof(int))
Ch(v) == [k |-> "char", v |-> v]           \* send(sock, &x, 1)
B(b) == [k |-> "bytes", b |-> b]           \* file or archive content
N(c) == [k |-> "name", c |-> c]            \* a file name of a listing
T(s, n) == [k |-> "text", s |-> s, n |-> n] \* the first n bytes at a literal s

(* The three sends of an error: status -1, the length, the message. *)
Frame(msg) == <<L(-1), I(Len(msg)), T(msg, Len(msg))>>

(* ---------------------------------------------------------------------- *)
(* The file system below $HOME: a function from path to content.           *)
(* ---------------------------------------------------------------------- *)
HasFile(d, p) == p \in DOMAIN d
WriteFile(d, p, data) == [q \in DOMAIN d \cup {p} |-> IF q = p THEN data ELSE d[q]]
RemoveFile(d, p) == [q \in DOMAIN d \ {p} |-> d[q]]

NodeDir(n) ==
  CASE n = "S2" -> DIR_S2
    [] n = "S3" -> DIR_S3
    [] n = "S4" -> DIR_S4

NodeExt(n) ==
  CASE n = "S2" -> EXT_PDF
    [] n = "S3" -> EXT_TXT
    [] n = "S4" -> EXT_ZIP

(* The extension kept below a storage root: .c below S1. *)
NodeExtOrC(r) ==
  CASE r = DIR_S2 -> EXT_PDF
    [] r = DIR_S3 -> EXT_TXT
    [] r = DIR_S4 -> EXT_ZIP
    [] OTHER -> EXT_C

(* find <root> -type f -name '*<ext>': the files below root that end in ext. *)
FilesBelow(d, root, ext) ==
  {p \in DOMAIN d : StartsWith(p, root \o Slash) /\ Len(BaseName(p)) >= Len(ext)
                    /\ Drop(BaseName(p), Len(BaseName(p)) - Len(ext)) = ext}

(* The order of the characters of the model's names, as strcmp sees them. *)
Alphabet == <<".", "/", "1", "2", "3", "4", "S", "a", "b", "c", "d", "e", "f",
              "i", "p", "t", "x", "z", "~">>
Code(c) == CHOOSE i \in 1..Len(Alphabet) : Alphabet[i] = c

(* strcmp(a, b) < 0 *)
StrLess(a, b) ==
  \E i \in 1..(Len(a) + 1) :
    /\ i <= Len(b)
    /\ \A j \in 1..(i - 1) : a[j] = b[j]
    /\ (i = Len(a) + 1 \/ Code(a[i]) < Code(b[i]))

(* A set of strings as the sequence in strcmp order. *)
RECURSIVE SortedSeq(_)
SortedSeq(S) ==
  IF S = {} THEN <<>>
  ELSE LET m == CHOOSE x \in S : \A y \in S \ {x} : StrLess(x, y)
       IN  <<m>> \o SortedSeq(S \ {m})

(* The sequence s in reverse. *)
RECURSIVE Reverse(_)
Reverse(s) == IF s = <<>> THEN <<>> ELSE Append(Reverse(Tail(s)), Head(s))

(* The order in which readdir or find hands out the entries S: it is the    *)
(* file system's, here either of two opposite ones.                         *)
DirOrder(S, ord) == IF ord = "asc" THEN SortedSeq(S) ELSE Reverse(SortedSeq(S))

(* The archive tar builds of the files: per file a header byte, then the content. *)
RECURSIVE TarOf(_, _)
TarOf(d, paths) ==
  IF paths = <<>> THEN <<>>
  ELSE <<1>> \o d[Head(paths)] \o TarOf(d, Tail(paths))

TarBlob(d, root, ext) == TarOf(d, SortedSeq(FilesBelow(d, root, ext)))

(* ---------------------------------------------------------------------- *)
(* The storage nodes S2, S3, S4: what a node does with one connection.     *)
(* ---------------------------------------------------------------------- *)

(* The switch of a node's main: S4 has no case for 'R' and none for 'T'. *)
NodeHandles(n, c) ==
  IF n = "S4" THEN c \in {"U", "D", "L"} ELSE c \in {"U", "D", "R", "T", "L"}

(* handle_upload: the file is written at $HOME/<node dir><rel_path>; wrOk is *)
(* whether fopen(fullpath, "wb") succeeded.  Nothing is sent back.           *)
Node_handle_upload(n, d, rel_path, data, wrOk) ==
  IF wrOk THEN WriteFile(d, NodeDir(n) \o rel_path, data) ELSE d

(* What handle_upload writes to the socket of S1: it has no send, whether   *)
(* fopen succeeded or not.                                                  *)
Node_upload_reply(n, wrOk) == <<>>

(* mkdir -p dirname(fullpath) in handle_upload: the directories it leaves. *)
Node_upload_dirs(n, roots, rel_path) ==
  IF StartsWith(rel_path, Slash) THEN roots \cup {NodeDir(n)} ELSE roots

(* handle_download: the reply, and whether the node crashed (strstr returned *)
(* NULL and NULL + 3 was printed with %s).                                   *)
Node_handle_download(n, d, filepath) ==
  LET i == StrStr(filepath, STR_S1S)
      local == NodeDir(n) \o Slash \o Drop(filepath, i + 2)
  IN  IF i = 0 THEN [reply |-> <<>>, crash |-> TRUE]
      ELSE IF ~HasFile(d, local)
        THEN [reply |-> <<Ch(-1), I(15), T("EFile not found", 15)>>, crash |-> FALSE]
      ELSE [reply |-> <<Ch(1), L(Len(d[local]))>>
                        \o (IF Len(d[local]) > 0 THEN <<B(d[local])>> ELSE <<>>),
            crash |-> FALSE]

(* handle_remove of S2 and S3. *)
Node_handle_remove(n, d, filepath) ==
  LET local == NodeDir(n) \o Slash \o Drop(filepath, StrStr(filepath, STR_S1S) + 2)
  IN  IF StrStr(filepath, <<".", ".", "/">>) # 0 \/ StrStr(filepath, <<"/", ".", ".">>) # 0
        THEN [reply |-> <<T("EPath traversal not allowed", 26)>>, disk |-> d]
      ELSE IF ~StartsWith(filepath, TOK_S1 \o Slash)
        THEN [reply |-> <<T("EPath must start with ~S1/", 25)>>, disk |-> d]
      ELSE IF HasFile(d, local)
        THEN [reply |-> <<T("SFile deleted successfully", 26)>>, disk |-> RemoveFile(d, local)]
      ELSE [reply |-> <<T("EFile not found", 15)>>, disk |-> d]

(* What the archive of a node is sent as: S2 sends a status first, S3 none. *)
Node_tar_success(n, blob) ==
  (IF n = "S2" THEN <<L(1)>> ELSE <<>>)
    \o <<L(Len(blob))>> \o (IF Len(blob) > 0 THEN <<B(blob)>> ELSE <<>>)

(* handle_downloadtar of S2 and S3.  sys is how the shell commands went:   *)
(* "ok", "mkdir" (mkdir server_temp failed), "tar" (find | tar failed),    *)
(* "open" (the archive could not be opened).  S3 does not look for its     *)
(* directory or for files first: without ~/S3 its tar -C ~/S3 fails.       *)
Node_handle_downloadtar(n, d, roots, filetype, sys) ==
  IF <<".">> \o filetype # NodeExt(n) THEN Frame("EWrong filetype for this server")
  ELSE IF n = "S2" /\ NodeDir(n) \notin roots THEN Frame("ES1 directory not found")
  ELSE IF n = "S2" /\ FilesBelow(d, NodeDir(n), NodeExt(n)) = {}
    THEN Frame("ENo .pdf files found in S1 directory")
  ELSE IF sys = "mkdir" THEN <<T("ECould not create temp directory", 31)>>
  ELSE IF sys = "tar" \/ NodeDir(n) \notin roots THEN <<T("ETar creation failed", 19)>>
  ELSE IF sys = "open" THEN Frame("ETar file not found")
  ELSE Node_tar_success(n, TarBlob(d, NodeDir(n), NodeExt(n)))

(* The fields of a listing: status, count, then length and name per file. *)
RECURSIVE ListFields(_)
ListFields(names) ==
  IF names = <<>> THEN <<>>
  ELSE <<I(Len(Head(names))), N(Head(names))>> \o ListFields(Tail(names))

(* Sequence of the base names of a set of paths, in the order of the paths. *)
RECURSIVE BaseNames(_)
BaseNames(paths) ==
  IF paths = <<>> THEN <<>> ELSE <<BaseName(Head(paths))>> \o BaseNames(Tail(paths))

(* handle_listing.  S2 and S4: find <dir> -maxdepth 1 of the directory the  *)
(* path names, status 0 when nothing is found.  S3: every .txt file below   *)
(* its root, whatever the path, and status 1 always.                        *)
Node_handle_listing(n, d, pathname, ord) ==
  LET full == NodeDir(n) \o Drop(pathname, 3)
      found == IF n = "S3" THEN FilesBelow(d, NodeDir(n), NodeExt(n))
               ELSE {p \in FilesBelow(d, NodeDir(n), NodeExt(n)) : DirName(p) = full}
      names == BaseNames(DirOrder(found, ord))
  IN  IF n # "S3" /\ ~StartsWith(pathname, <<"~">> \o NodeDir(n)) THEN <<L(0)>>
      ELSE IF n # "S3" /\ found = {} THEN <<L(0)>>
      ELSE <<L(1), I(Len(names))>> \o ListFields(names)

(* ---------------------------------------------------------------------- *)
(* The state.                                                              *)
(* ---------------------------------------------------------------------- *)
VARIABLES
  disk,    \* the files below $HOME: path -> content
  roots,   \* the storage directories (S1, S2, ...) that exist
  temp,    \* whether S1's scratch directory server_temp exists
  pc,      \* where prcclient is: "idle" (at recv), "dispatch" (a command is
           \* parsed, its handler called), "tar_relay" (in the relay loop of
           \* the archive handler), "returned" (the handler has returned),
           \* "closed" (after close(client_sock)), "killed" (by SIGPIPE)
  peer,    \* the client's end of the connection: "open" or "gone"
  cmd,     \* the command line of the request, as tokens, with the body of a Store
  env,     \* what the surroundings did during the request (see NoFault)
  out,     \* the sends to the client socket during the request, in order
  conns,   \* the ports connect() was called with during the request
  socks,   \* "open" and "close" of backend sockets during the request
  rem,     \* bytes_remaining of the archive relay loop
  bk,      \* what the backend socket still holds for the relay loop
  hist     \* the requests served before this one (see Summary)

vars == <<disk, roots, temp, pc, peer, cmd, env, out, conns, socks, rem, bk, hist>>

(* What the surroundings do during one request:                             *)
(*   alive  the nodes whose process is running,                             *)
(*   sys    how file and shell operations went: "ok", "write" (fopen for    *)
(*          writing failed), "mkdir", "tar", "open" (see the archive code), *)
(*   got    the bytes of a Store body the client sent before it went away,  *)
(*          -1 when it sent them all,                                       *)
(*   junk   what memory no read has filled holds, as a number: -1 (all bits *)
(*          set), 0 or 1,                                                   *)
(*   die    the fields of its reply a node sent before its process died,    *)
(*          -1 when it sent them all,                                       *)
(*   race   how the sends of S1 and the close of a node that has no case    *)
(*          for the command interleave: "eof" and "reset" (recv returned 0  *)
(*          or -1), "sendfail" (a send returned -1), "sigpipe" (a send on   *)
(*          the closed socket raised SIGPIPE).                              *)
NoFault == [alive |-> Nodes, sys |-> "ok", got |-> -1, junk |-> 0, die |-> -1,
            race |-> "reset", order |-> "asc"]

(* The same memory as one byte. *)
JunkByte(e) == IF e.junk < 0 THEN 255 ELSE e.junk

(* Eight characters of a text read as a long: a positive number above every *)
(* size of the model.                                                        *)
Huge == BUFFER_SIZE * BUFFER_SIZE

(* What a handler leaves behind. *)
Result(o, cs, ss, d, r, t) ==
  [out |-> o, conns |-> cs, socks |-> ss, disk |-> d, roots |-> r, temp |-> t,
   next |-> "returned", rem |-> 0, bk |-> <<>>]

(* ---------------------------------------------------------------------- *)
(* S1: the connection to a node.                                           *)
(* ---------------------------------------------------------------------- *)

(* connect() succeeds when a running node listens on the port. *)
Listening(port, e) == \E n \in e.alive : ListenPort(n) = port
NodeAt(port) == CHOOSE n \in Nodes : ListenPort(n) = port

(* A refused connection reported as bare text. *)
ConnectFailureBare == <<T("EConnection is not reliable", 27)>>

(* connect_to_target_server, when connect() fails: what the client is sent. *)
ConnectFailure == Frame("EConnection is not reliable")

(* The reply of a node whose process died after die fields. *)
Delivered(reply, e) ==
  IF e.die < 0 \/ e.die >= Len(reply) THEN reply ELSE Take(reply, e.die)

(* ---------------------------------------------------------------------- *)
(* S1: Store (uploadf).                                                    *)
(* ---------------------------------------------------------------------- *)

(* A Store that keeps every file it has no node for in the local store. *)
UploadPortDefault(filename) ==
  CASE DotExt(filename) = EXT_PDF -> PORT_S2
    [] DotExt(filename) = EXT_TXT -> PORT_S3
    [] DotExt(filename) = EXT_ZIP -> PORT_S4
    [] OTHER -> 0

(* The port a file name's extension is sent to by handle_upload_request,   *)
(* 0 for the local store, -1 for no store at all.                          *)
UploadPort(filename) ==
  CASE DotExt(filename) = EXT_PDF -> PORT_S2
    [] DotExt(filename) = EXT_TXT -> PORT_S3
    [] DotExt(filename) = EXT_ZIP -> PORT_S4
    [] DotExt(filename) = EXT_C -> 0
    [] OTHER -> -1

(* moddest: the path handle_upload_request sends to a node. *)
ModDest(filename, dest_path) ==
  IF StartsWith(dest_path, TOK_S1) THEN Drop(dest_path, 3) \o Slash \o filename
  ELSE dest_path \o Slash \o filename

(* The buffer after the receive loop: what arrived, then what malloc left. *)
FileData(data, e) ==
  IF e.got < 0 \/ e.got >= Len(data) THEN data
  ELSE Take(data, e.got) \o [i \in 1..(Len(data) - e.got) |-> JunkByte(e)]

(* The last send of handle_upload_request, by its result. *)
UploadResponse(result) ==
  LET response == CASE result = 1 -> "File uploaded successfully."
                     [] result = -1 -> "Error processing the file."
                     [] OTHER -> "Error sending file to destination server."
  IN  T(response, Len(response) + 1)

(* send_file_to_server: its return value and what it leaves behind. *)
send_file_to_server(port, filedata, rel, e) ==
  IF ~Listening(port, e)
    THEN [result |-> -1, disk |-> disk, roots |-> roots]
  ELSE [result |-> 1,
        disk |-> Node_handle_upload(NodeAt(port), disk, rel, filedata, e.sys # "write"),
        roots |-> Node_upload_dirs(NodeAt(port), roots, rel)]

(* The local branch: mkdir -p, fopen, fwrite. *)
UploadLocal(filename, dest_path, filedata, e) ==
  LET fullpath == DIR_S1 \o Drop(dest_path, 3) \o Slash \o filename
  IN  [result |-> IF e.sys = "write" THEN -1 ELSE 1,
       disk |-> IF e.sys = "write" THEN disk ELSE WriteFile(disk, fullpath, filedata),
       roots |-> IF StartsWith(fullpath, DIR_S1 \o Slash) THEN roots \cup {DIR_S1}
                 ELSE roots]

handle_upload_request(filename, dest_path, data, e) ==
  LET port == UploadPort(filename)
      filedata == FileData(data, e)
      r == IF port > 0 THEN send_file_to_server(port, filedata, ModDest(filename, dest_path), e)
           ELSE IF port = 0 THEN UploadLocal(filename, dest_path, filedata, e)
           ELSE [result |-> 0, disk |-> disk, roots |-> roots]
  IN  Result(<<UploadResponse(r.result)>>,
             IF port > 0 THEN <<port>> ELSE <<>>,
             IF port > 0 THEN <<"open", "close">> ELSE <<>>,
             r.disk, r.roots, temp)

(* ---------------------------------------------------------------------- *)
(* S1: Retrieve (downlf) and Delete (removef).                             *)
(* ---------------------------------------------------------------------- *)

(* A routing that sends .pdf paths to the port of the .txt node. *)
TargetPortCrossed(ext) ==
  CASE ext = EXT_PDF -> PORT_S3
    [] ext = EXT_TXT -> PORT_S3
    [] ext = EXT_ZIP -> PORT_S4
    [] OTHER -> -1

(* The port handle_download_request and handle_remove_request pick for the *)
(* text after the last '.', -1 for the final else.                          *)
TargetPort(ext) ==
  CASE ext = EXT_PDF -> PORT_S2
    [] ext = EXT_TXT -> PORT_S3
    [] ext = EXT_ZIP -> PORT_S4
    [] OTHER -> -1

(* The sends of a file's content: status, size, then the bytes. *)
SendFile(content) ==
  <<L(1), L(Len(content))>> \o (IF Len(content) > 0 THEN <<B(content)>> ELSE <<>>)

(* The local branch of handle_download_request. *)
DownloadLocal(filepath) ==
  LET i == StrStr(filepath, STR_S1S)
      local_path == DIR_S1 \o Slash \o Drop(filepath, i + 2)
  IN  IF i = 0 THEN Frame("EInvalid path format")
      ELSE IF ~HasFile(disk, local_path) THEN Frame("EFile not found")
      ELSE SendFile(disk[local_path])

(* n bytes of a buffer no recv has filled. *)
JunkBytes(n, e) == IF n > 0 THEN <<B([i \in 1..n |-> JunkByte(e)])>> ELSE <<>>

(* What handle_download_request sends the client after the node's reply r:  *)
(* the status byte, then message length and message, or the size and what   *)
(* arrives until the node closes.  A field that did not arrive leaves its   *)
(* variable as it was.                                                      *)
DownloadRelay(r, e) ==
  LET status1 == IF Len(r) >= 1 THEN r[1].v ELSE e.junk
      second == IF Len(r) >= 2 THEN r[2].v ELSE e.junk
  IN  IF status1 = -1
        THEN <<L(-1), I(second)>> \o (IF Len(r) >= 3 THEN <<r[3]>> ELSE JunkBytes(second, e))
      ELSE <<L(second)>> \o Drop(r, 2)

handle_download_request(filepath, e) ==
  LET ext == DotExt(filepath)
      port == TargetPort(ext)
      served == Node_handle_download(NodeAt(port), disk, filepath)
  IN  IF ext = <<>> THEN Result(Frame("EInvalid file: no extension"), <<>>, <<>>, disk, roots, temp)
      ELSE IF ext = EXT_C THEN Result(DownloadLocal(filepath), <<>>, <<>>, disk, roots, temp)
      ELSE IF port < 0
        THEN Result(<<T("EUnsupported file type", 22)>>, <<>>, <<>>, disk, roots, temp)
      ELSE IF ~Listening(port, e)
        THEN Result(ConnectFailure, <<port>>, <<"open", "close">>, disk, roots, temp)
      ELSE Result(<<L(1)>> \o DownloadRelay(Delivered(served.reply, e), e),
                  <<port>>, <<"open", "close">>, disk, roots, temp)

(* The local branch of handle_remove_request. *)
RemoveLocal(filepath) ==
  LET i == StrStr(filepath, STR_S1S)
      local_path == DIR_S1 \o Slash \o Drop(filepath, i + 2)
  IN  IF i = 0 \/ i - 1 # 1 \/ ~StartsWith(filepath, TOK_S1 \o Slash)
        THEN [out |-> <<T("EPath must be in format: ~S1/...", 33)>>, disk |-> disk]
      ELSE IF HasFile(disk, local_path)
        THEN [out |-> <<L(1), T("SFile deleted successfully", 26)>>,
              disk |-> RemoveFile(disk, local_path)]
      ELSE [out |-> <<L(1), T("EFile not found", 15)>>, disk |-> disk]

(* A relay that sends the client whatever recv left in the buffer, also    *)
(* when that is nothing.                                                   *)
RemoveRemoteRaw(port, filepath, e) ==
  LET n == NodeAt(port)
      served == Node_handle_remove(n, disk, filepath)
      reply == IF NodeHandles(n, "R") THEN Delivered(served.reply, e) ELSE <<>>
  IN  [out |-> <<L(1)>> \o reply, socks |-> <<"open", "close">>,
       disk |-> IF reply = <<>> THEN disk ELSE served.disk, next |-> "returned"]

(* The remote branch of handle_remove_request after connect() succeeded.    *)
(* A node with a case for 'R' reads the path and answers; one without       *)
(* closes at once, and env.race says how that meets the sends of S1.        *)
RemoveRemote(port, filepath, e) ==
  LET n == NodeAt(port)
      served == Node_handle_remove(n, disk, filepath)
      reply == Delivered(served.reply, e)
  IN  IF NodeHandles(n, "R")
        THEN IF reply = <<>>
               THEN [out |-> <<L(1), T("ENo response from storage server", 31)>>,
                     socks |-> <<"open", "close">>, disk |-> disk, next |-> "returned"]
             ELSE [out |-> <<L(1)>> \o reply, socks |-> <<"open", "close">>,
                   disk |-> served.disk, next |-> "returned"]
      ELSE IF e.race = "sigpipe"
        THEN [out |-> <<L(1)>>, socks |-> <<"open">>, disk |-> disk, next |-> "killed"]
      ELSE IF e.race = "sendfail"
        THEN [out |-> <<L(1), T("EInternal server error", 22)>>,
              socks |-> <<"open", "close">>, disk |-> disk, next |-> "returned"]
      ELSE [out |-> <<L(1), T("ENo response from storage server", 31)>>,
            socks |-> <<"open", "close">>, disk |-> disk, next |-> "returned"]

handle_remove_request(filepath, e) ==
  LET ext == DotExt(filepath)
      port == TargetPort(ext)
      loc == RemoveLocal(filepath)
      rr == RemoveRemote(port, filepath, e)
  IN  IF ext = <<>>
        THEN Result(<<T("EInvalid file: no extension", 27)>>, <<>>, <<>>, disk, roots, temp)
      ELSE IF ext = EXT_C THEN Result(loc.out, <<>>, <<>>, loc.disk, roots, temp)
      ELSE IF port < 0
        THEN Result(<<T("EUnsupported file type", 22)>>, <<>>, <<>>, disk, roots, temp)
      ELSE IF ~Listening(port, e)
        THEN Result(ConnectFailure, <<port>>, <<"open", "close">>, disk, roots, temp)
      ELSE [Result(rr.out, <<port>>, rr.socks, rr.disk, roots, temp) EXCEPT !.next = rr.next]

(* ---------------------------------------------------------------------- *)
(* S1: Archive (downltar).                                                 *)
(* ---------------------------------------------------------------------- *)

(* A local branch that makes the scratch directory and runs tar without    *)
(* looking for the directory and the files first.                          *)
TarLocalUnchecked(e) ==
  IF temp \/ e.sys = "mkdir"
    THEN [out |-> Frame("ECould not create temp directory"), temp |-> temp]
  ELSE IF e.sys = "tar" \/ DIR_S1 \notin roots
    THEN [out |-> Frame("ETar creation failed"), temp |-> FALSE]
  ELSE IF e.sys = "open" THEN [out |-> Frame("ETar creation failed"), temp |-> TRUE]
  ELSE [out |-> SendFile(TarBlob(disk, DIR_S1, EXT_C)), temp |-> FALSE]

(* The local branch of handle_downloadtar_request: what is sent and whether *)
(* server_temp is left behind.                                              *)
TarLocal(e) ==
  IF DIR_S1 \notin roots THEN [out |-> Frame("ES1 directory not found"), temp |-> temp]
  ELSE IF FilesBelow(disk, DIR_S1, EXT_C) = {}
    THEN [out |-> Frame("ENo .c files found in S1 directory"), temp |-> temp]
  ELSE IF temp \/ e.sys = "mkdir"
    THEN [out |-> Frame("ECould not create temp directory"), temp |-> temp]
  ELSE IF e.sys = "tar" THEN [out |-> Frame("ETar creation failed"), temp |-> FALSE]
  ELSE IF e.sys = "open" THEN [out |-> Frame("ETar creation failed"), temp |-> TRUE]
  ELSE [out |-> SendFile(TarBlob(disk, DIR_S1, EXT_C)), temp |-> FALSE]

(* The bytes a field takes on the wire. *)
FieldBytes(f) ==
  CASE f.k = "long" -> 8
    [] f.k = "int" -> 4
    [] f.k = "char" -> 1
    [] f.k = "bytes" -> Len(f.b)
    [] f.k = "name" -> Len(f.c)
    [] f.k = "text" -> f.n

(* recv(sock, &x, sizeof x) of a number where the node sent the field f:    *)
(* the number, or the characters of a text read as a number.                *)
AsNumber(f) == IF f.k \in {"long", "int", "char"} THEN f.v ELSE Huge

(* The remote branch of handle_downloadtar_request from the first recv to   *)
(* the relay loop, for the reply r of the node: what is sent to the client, *)
(* bytes_remaining and what the socket still holds when the loop starts,    *)
(* and whether the handler has returned or is in the loop.                  *)
TarRemote(r, e) ==
  LET status1 == IF Len(r) >= 1 THEN AsNumber(r[1]) ELSE e.junk
      text16 == Len(r) >= 1 /\ r[1].k = "text"
      second == IF text16 THEN Huge
                ELSE IF Len(r) >= 2 THEN AsNumber(r[2]) ELSE e.junk
      rest == IF text16 THEN <<T(r[1].s, r[1].n - 16)>> ELSE Drop(r, 2)
  IN  IF status1 = -1
        THEN [out |-> <<L(-1), I(second)>>
                      \o (IF Len(r) >= 3 THEN <<r[3]>> ELSE JunkBytes(second, e)),
              next |-> "returned", rem |-> 0, bk |-> <<>>]
      ELSE IF second < 0
        THEN [out |-> <<L(status1)>>, next |-> "returned", rem |-> 0, bk |-> <<>>]
      ELSE IF second = 0
        THEN [out |-> <<L(status1), L(0)>>, next |-> "returned", rem |-> 0, bk |-> <<>>]
      ELSE [out |-> <<L(status1), L(second)>>, next |-> "tar_relay",
            rem |-> second, bk |-> rest]

(* A gateway that takes zip for a file type as well. *)
TarTypesAll == {<<"c">>, <<"p", "d", "f">>, <<"t", "x", "t">>, <<"z", "i", "p">>}

(* The file types handle_downloadtar_request accepts. *)
TarTypes == {<<"c">>, <<"p", "d", "f">>, <<"t", "x", "t">>}

handle_downloadtar_request(filetype, e) ==
  LET loc == TarLocal(e)
      port == IF filetype = <<"p", "d", "f">> THEN PORT_S2 ELSE PORT_S3
      reply == Node_handle_downloadtar(NodeAt(port), disk, roots, filetype, e.sys)
      rr == TarRemote(Delivered(reply, e), e)
  IN  IF filetype \notin TarTypes
        THEN Result(<<T("EInvalid filetype (use: c, pdf, txt)", 35)>>, <<>>, <<>>,
                    disk, roots, temp)
      ELSE IF filetype = <<"c">> THEN Result(loc.out, <<>>, <<>>, disk, roots, loc.temp)
      ELSE IF ~Listening(port, e)
        THEN Result(ConnectFailure, <<port>>, <<"open", "close">>, disk, roots, temp)
      ELSE [out |-> rr.out, conns |-> <<port>>,
            socks |-> IF rr.next = "returned" THEN <<"open", "close">> ELSE <<"open">>,
            disk |-> disk, roots |-> roots, temp |-> temp,
            next |-> rr.next, rem |-> rr.rem, bk |-> rr.bk]

(* ---------------------------------------------------------------------- *)
(* S1: List (dispfnames).                                                   *)
(* ---------------------------------------------------------------------- *)

(* A FileEntry: the name and the extension it was collected under. *)
FileEntry(filename, ext) == [filename |-> filename, ext |-> ext]

(* The names as entries of one extension, in the order of the names. *)
RECURSIVE Entries(_, _)
Entries(names, ext) ==
  IF names = <<>> THEN <<>>
  ELSE <<FileEntry(Head(names), ext)>> \o Entries(Tail(names), ext)

(* strcmp(a, b): negative, zero or positive. *)
StrCmp(a, b) == IF a = b THEN 0 ELSE IF StrLess(a, b) THEN -1 ELSE 1

(* The index of ext in ext_order, 0 when it is not there. *)
ext_order == <<EXT_C, EXT_PDF, EXT_TXT, EXT_ZIP>>
ExtIndex(ext) ==
  IF \E i \in 1..4 : ext_order[i] = ext
    THEN (CHOOSE i \in 1..4 : ext_order[i] = ext) - 1
    ELSE 0

(* A comparator that looks at the names only. *)
compare_names(fa, fb) == StrCmp(fa.filename, fb.filename)

(* compare_files: by the place of the extension in ext_order, then strcmp  *)
(* of the names.                                                            *)
compare_files(fa, fb) ==
  IF ExtIndex(fa.ext) # ExtIndex(fb.ext) THEN ExtIndex(fa.ext) - ExtIndex(fb.ext)
  ELSE StrCmp(fa.filename, fb.filename)

(* qsort(files, count, sizeof(FileEntry), compare_files): the entries put   *)
(* in place one after the other by the comparator.                          *)
RECURSIVE InsertEntry(_, _)
InsertEntry(x, sorted) ==
  IF sorted = <<>> THEN <<x>>
  ELSE IF compare_files(x, Head(sorted)) <= 0 THEN <<x>> \o sorted
  ELSE <<Head(sorted)>> \o InsertEntry(x, Tail(sorted))

RECURSIVE qsort(_)
qsort(files) ==
  IF files = <<>> THEN <<>> ELSE InsertEntry(Head(files), qsort(Tail(files)))

(* The file names of the entries, in their order. *)
RECURSIVE EntryNames(_)
EntryNames(files) ==
  IF files = <<>> THEN <<>> ELSE <<Head(files).filename>> \o EntryNames(Tail(files))

(* get_files_from_dir: the regular files of the directory that end in ext, *)
(* in the order readdir hands them out.                                     *)
get_files_from_dir(path, ext, e) ==
  Entries(BaseNames(DirOrder({q \in DOMAIN disk : DirName(q) = path /\ DotExt(BaseName(q)) = ext},
                             e.order)), ext)

(* A replacement of the last occurrence of old. *)
str_replace_last(str, old, new) ==
  LET hits == {i \in 1..(Len(str) - Len(old) + 1) : SubSeq(str, i, i + Len(old) - 1) = old}
      i == IF hits = {} THEN 0 ELSE CHOOSE k \in hits : \A j \in hits : k >= j
  IN  IF i = 0 THEN str ELSE Take(str, i - 1) \o new \o Drop(str, i - 1 + Len(old))

(* str_replace: the first occurrence of old replaced by new. *)
str_replace(str, old, new) ==
  LET i == StrStr(str, old)
  IN  IF i = 0 THEN str ELSE Take(str, i - 1) \o new \o Drop(str, i - 1 + Len(old))

(* A gateway that takes no name from any reply. *)
RemoteNamesNone(r) == <<>>

(* A gateway that counts every entry the node announced, received or not. *)
RemoteNamesAnnounced(r) ==
  IF Len(r) < 2 \/ r[1].v # 1 THEN <<>>
  ELSE [i \in 1..r[2].v |-> IF 2 * i + 2 <= Len(r) THEN r[2 * i + 2].c ELSE <<>>]

(* request_files_from_server: the names it takes from the reply r of the   *)
(* node, none unless the status is 1.                                       *)
RemoteNames(r) ==
  LET count == IF Len(r) >= 2 THEN r[2].v ELSE 0
      pairs == (Len(r) - 2) \div 2
      k == IF count < pairs THEN count ELSE pairs
  IN  IF Len(r) < 2 \/ r[1].v # 1 THEN <<>>
      ELSE [i \in 1..k |-> r[2 * i + 2].c]

(* request_files_from_server: nothing when connect fails, else the names   *)
(* of the reply as entries of ext.                                          *)
request_files_from_server(port, pathname, ext, e) ==
  IF ~Listening(port, e) THEN <<>>
  ELSE Entries(RemoteNames(Delivered(Node_handle_listing(NodeAt(port), disk, pathname, e.order), e)),
               ext)

(* A gateway that answers with the failure frame of connect_to_target_server *)
(* when one of the nodes refuses the connection.                            *)
ListReplyStrict(files, e) ==
  IF \E port \in {PORT_S2, PORT_S3, PORT_S4} : ~Listening(port, e) THEN ConnectFailure
  ELSE <<L(1), I(Len(files))>> \o ListFields(EntryNames(files))

(* The sends that end handle_pathname_request: status 1, the count, then   *)
(* length and name per entry, whatever the nodes did.                       *)
ListReply(files, e) == <<L(1), I(Len(files))>> \o ListFields(EntryNames(files))

(* handle_pathname_request: the local .c files, then the entries of S2, S3 *)
(* and S4, sorted by qsort with compare_files.                              *)
handle_pathname_request(pathname, e) ==
  LET local == get_files_from_dir(DIR_S1 \o Drop(pathname, 3), EXT_C, e)
      s2 == request_files_from_server(PORT_S2, str_replace(pathname, STR_S1, DIR_S2), EXT_PDF, e)
      s3 == request_files_from_server(PORT_S3, str_replace(pathname, STR_S1, DIR_S3), EXT_TXT, e)
      s4 == request_files_from_server(PORT_S4, str_replace(pathname, STR_S1, DIR_S4), EXT_ZIP, e)
      files == qsort(local \o s2 \o s3 \o s4)
  IN  Result(ListReply(files, e),
             <<PORT_S2, PORT_S3, PORT_S4>>,
             <<"open", "close", "open", "close", "open", "close">>,
             disk, roots, temp)

(* ---------------------------------------------------------------------- *)
(* The commands a client sends in the model.                                *)
(* ---------------------------------------------------------------------- *)
DEST == <<"~", "S", "1", "/", "d">>
A_C == <<"a", ".", "c">>
A_PDF == <<"a", ".", "p", "d", "f">>
A_TXT == <<"a", ".", "t", "x", "t">>
A_ZIP == <<"a", ".", "z", "i", "p">>
A_X == <<"a", ".", "x">>
A_NONE == <<"a">>
Supported == {A_C, A_PDF, A_TXT, A_ZIP}
FileNames == Supported \cup {A_X, A_NONE}

(* The virtual path of a file name stored at DEST. *)
VPath(name) == DEST \o Slash \o name

(* The paths of downlf and removef: the stored ones, and one without "~S1/". *)
FilePaths == {VPath(name) : name \in FileNames} \cup {A_C}

(* The second token of downltar, with its dot. *)
FileTypes == {<<".", "c">>, <<".", "p", "d", "f">>, <<".", "t", "x", "t">>,
              <<".", "z", "i", "p">>}

(* The file contents: n bytes 7, 8, ... for n up to MaxLen. *)
Content(n) == [i \in 1..n |-> 6 + i]
Contents == {Content(n) : n \in 0..MaxLen}

NoArg == <<>>
Command(op, name, arg, data) == [op |-> op, name |-> name, arg |-> arg, data |-> data]

(* What the surroundings may do during a request: nothing, or one deviation *)
(* that the request can meet.  Remote(x) is whether the extension or type x *)
(* has a node that S1 can reach.                                            *)
Junks == {-1, 0, 1}
Remote(x) == TargetPort(x) > 0 /\ Listening(TargetPort(x), NoFault)
NodeDown == {[NoFault EXCEPT !.alive = {}]}
NodeDies(k) == {[NoFault EXCEPT !.die = d, !.junk = j] : d \in 0..k, j \in Junks}
ClientCuts(data) ==
  {[NoFault EXCEPT !.got = g, !.junk = j] : g \in 0..(Len(data) - 1), j \in Junks}
UploadEnvs(name, data) ==
  {NoFault}
    \cup (IF Remote(DotExt(name)) THEN NodeDown ELSE {})
    \cup (IF UploadPort(name) = 0 \/ Remote(DotExt(name))
            THEN {[NoFault EXCEPT !.sys = "write"]} \cup ClientCuts(data) ELSE {})
DownloadEnvs(path) ==
  {NoFault} \cup (IF Remote(DotExt(path)) THEN NodeDown \cup NodeDies(2) ELSE {})
RemoveEnvs(path) ==
  {NoFault}
    \cup (IF Remote(DotExt(path)) THEN NodeDown ELSE {})
    \cup (IF Remote(DotExt(path)) /\ NodeHandles(NodeAt(TargetPort(DotExt(path))), "R")
            THEN {[NoFault EXCEPT !.die = 0]} ELSE {})
    \cup (IF Remote(DotExt(path)) /\ ~NodeHandles(NodeAt(TargetPort(DotExt(path))), "R")
            THEN {[NoFault EXCEPT !.race = r] : r \in {"eof", "sendfail", "sigpipe"}}
            ELSE {})
TarEnvs(type) ==
  {NoFault}
    \cup (IF type = EXT_C \/ (type \in {EXT_PDF, EXT_TXT} /\ Remote(type))
            THEN {[NoFault EXCEPT !.sys = x] : x \in {"mkdir", "tar", "open"}} ELSE {})
    \cup (IF type \in {EXT_PDF, EXT_TXT} /\ Remote(type)
            THEN NodeDown \cup NodeDies(2) ELSE {})
ListEnvs(path) ==
  {NoFault}
    \cup (IF path = DEST
            THEN {[NoFault EXCEPT !.alive = a] : a \in {{}, {"S2"}, {"S3", "S4"}}}
                   \cup {[NoFault EXCEPT !.die = d] : d \in 0..4}
                   \cup {[NoFault EXCEPT !.order = "desc"]}
            ELSE {})

(* ---------------------------------------------------------------------- *)
(* What is remembered of the requests before the current one.               *)
(* ---------------------------------------------------------------------- *)
NoHist == [k |-> "none", path |-> <<>>, data |-> <<>>]

(* Nothing went wrong around the request. *)
CleanEnv(e) == e.alive = Nodes /\ e.sys = "ok" /\ e.got = -1 /\ e.die = -1

(* The request that has just been served, as the next one will see it: a   *)
(* Store of a supported file, or a Delete of the path stored just before.   *)
Summary ==
  IF cmd.op = "uploadf" /\ cmd.arg # NoArg /\ cmd.name \in Supported /\ CleanEnv(env)
    THEN [k |-> "store", path |-> cmd.arg \o Slash \o cmd.name, data |-> cmd.data]
  ELSE IF cmd.op = "removef" /\ CleanEnv(env) /\ hist.k = "store" /\ hist.path = cmd.arg
    THEN [k |-> "delete", path |-> cmd.arg, data |-> <<>>]
  ELSE NoHist

Commands ==
  {Command("uploadf", n, DEST, d) : n \in FileNames, d \in Contents}
    \cup {Command("uploadf", A_C, NoArg, <<>>)}
    \cup {Command(op, <<>>, p, <<>>) : op \in {"downlf", "removef"}, p \in FilePaths \cup {NoArg}}
    \cup {Command("downltar", <<>>, t, <<>>) : t \in FileTypes \cup {NoArg}}
    \cup {Command("dispfnames", <<>>, p, <<>>) : p \in {DEST, TOK_S1, NoArg}}
    \cup {Command("bogus", <<>>, NoArg, <<>>)}

EnvsOf(c) ==
  IF c.arg = NoArg THEN {NoFault}
  ELSE CASE c.op = "uploadf" -> UploadEnvs(c.name, c.data)
         [] c.op = "downlf" -> DownloadEnvs(c.arg)
         [] c.op = "removef" -> RemoveEnvs(c.arg)
         [] c.op = "downltar" -> TarEnvs(c.arg)
         [] c.op = "dispfnames" -> ListEnvs(c.arg)
         [] OTHER -> {NoFault}

(* ---------------------------------------------------------------------- *)
(* prcclient: the loop of one client connection.                            *)
(* ---------------------------------------------------------------------- *)
Init ==
  /\ disk = <<>>
  /\ roots = {}
  /\ temp = FALSE
  /\ pc = "idle"
  /\ peer = "open"
  /\ cmd = Command("none", <<>>, NoArg, <<>>)
  /\ env = NoFault
  /\ out = <<>>
  /\ conns = <<>>
  /\ socks = <<>>
  /\ rem = 0
  /\ bk = <<>>
  /\ hist = NoHist

(* A loop that would also take a command while the relay loop runs. *)
AtRecvEarly == pc \in {"idle", "tar_relay"}

(* Where prcclient may call recv for a command: at the top of its loop. *)
AtRecv == pc = "idle"

(* recv returned a command line other than exit. *)
ReadCommand(c, e) ==
  /\ AtRecv
  /\ peer = "open"
  /\ pc' = "dispatch"
  /\ cmd' = c
  /\ env' = e
  /\ UNCHANGED <<disk, roots, temp, peer, out, conns, socks, rem, bk, hist>>

(* recv returned "exit": break, close(client_sock). *)
ReadExit ==
  /\ AtRecv
  /\ peer = "open"
  /\ pc' = "closed"
  /\ cmd' = Command("exit", <<>>, NoArg, <<>>)
  /\ UNCHANGED <<disk, roots, temp, peer, env, out, conns, socks, rem, bk, hist>>

(* recv returned 0 or -1, the client is gone: break, close(client_sock). *)
ReadEOF ==
  /\ AtRecv
  /\ pc' = "closed"
  /\ peer' = "gone"
  /\ UNCHANGED <<disk, roots, temp, cmd, env, out, conns, socks, rem, bk, hist>>

(* The handler ran and left r. *)
Apply(r) ==
  /\ out' = r.out
  /\ conns' = r.conns
  /\ socks' = r.socks
  /\ disk' = r.disk
  /\ roots' = r.roots
  /\ temp' = r.temp
  /\ pc' = r.next
  /\ rem' = r.rem
  /\ bk' = r.bk
  /\ UNCHANGED <<cmd, env, hist>>

(* A token is missing: the usage text, continue. *)
UsageText ==
  CASE cmd.op = "uploadf" -> T("EUsage: uploadf <filename> <destination_path>", 44)
    [] cmd.op = "downlf" -> T("EUsage: downlf <filepath>", 24)
    [] cmd.op = "removef" -> T("EUsage: removef <filepath>", 25)
    [] cmd.op = "downltar" -> T("EUsage: downltar <filetype>", 26)
    [] cmd.op = "dispfnames" -> T("EUsage: dispfnames <pathname>", 28)

Usage ==
  /\ pc = "dispatch"
  /\ cmd.op \in {"uploadf", "downlf", "removef", "downltar", "dispfnames"}
  /\ cmd.arg = NoArg
  /\ Apply(Result(<<UsageText>>, <<>>, <<>>, disk, roots, temp))
  /\ UNCHANGED peer

Unknown ==
  /\ pc = "dispatch"
  /\ cmd.op = "bogus"
  /\ Apply(Result(<<T("EUnknown command", 16)>>, <<>>, <<>>, disk, roots, temp))
  /\ UNCHANGED peer

(* uploadf: the client is gone afterwards when it cut the body short. *)
Upload ==
  /\ pc = "dispatch"
  /\ cmd.op = "uploadf"
  /\ cmd.arg # NoArg
  /\ Apply(handle_upload_request(cmd.name, cmd.arg, cmd.data, env))
  /\ peer' = IF env.got >= 0 THEN "gone" ELSE peer

Download ==
  /\ pc = "dispatch"
  /\ cmd.op = "downlf"
  /\ cmd.arg # NoArg
  /\ Apply(handle_download_request(cmd.arg, env))
  /\ UNCHANGED peer

Remove ==
  /\ pc = "dispatch"
  /\ cmd.op = "removef"
  /\ cmd.arg # NoArg
  /\ Apply(handle_remove_request(cmd.arg, env))
  /\ UNCHANGED peer

(* downltar: filetype++ skips the first character of the token. *)
DownloadTar ==
  /\ pc = "dispatch"
  /\ cmd.op = "downltar"
  /\ cmd.arg # NoArg
  /\ Apply(handle_downloadtar_request(Drop(cmd.arg, 1), env))
  /\ UNCHANGED peer

Pathname ==
  /\ pc = "dispatch"
  /\ cmd.op = "dispfnames"
  /\ cmd.arg # NoArg
  /\ Apply(handle_pathname_request(cmd.arg, env))
  /\ UNCHANGED peer

(* One turn of the relay loop of handle_downloadtar_request in which recv   *)
(* returned bytes: they are sent on and counted.                            *)
TarRelayStep ==
  /\ pc = "tar_relay"
  /\ rem > 0
  /\ bk # <<>>
  /\ out' = Append(out, Head(bk))
  /\ rem' = rem - FieldBytes(Head(bk))
  /\ bk' = Tail(bk)
  /\ UNCHANGED <<disk, roots, temp, pc, peer, cmd, env, conns, socks, hist>>

(* One turn in which recv returned 0 because the node has closed: nothing   *)
(* is sent, bytes_remaining stays, the loop goes round again.               *)
TarRelaySpin ==
  /\ pc = "tar_relay"
  /\ rem > 0
  /\ bk = <<>>
  /\ UNCHANGED vars

(* A return from the relay loop that leaves the node's socket open. *)
TarRelayDoneLeak ==
  /\ pc = "tar_relay"
  /\ rem <= 0
  /\ pc' = "returned"
  /\ rem' = 0
  /\ bk' = <<>>
  /\ UNCHANGED <<disk, roots, temp, peer, cmd, env, out, conns, socks, hist>>

(* bytes_remaining is not above 0: close(server_sock) and return. *)
TarRelayDone ==
  /\ pc = "tar_relay"
  /\ rem <= 0
  /\ pc' = "returned"
  /\ socks' = Append(socks, "close")
  /\ rem' = 0
  /\ bk' = <<>>
  /\ UNCHANGED <<disk, roots, temp, peer, cmd, env, out, conns, hist>>

(* The handler has returned: back to the top of the loop.  The sends of    *)
(* the request are forgotten, what the next request needs of it is kept.    *)
LoopBack ==
  /\ pc = "returned"
  /\ pc' = "idle"
  /\ hist' = Summary
  /\ cmd' = Command("none", <<>>, NoArg, <<>>)
  /\ env' = NoFault
  /\ out' = <<>>
  /\ conns' = <<>>
  /\ socks' = <<>>
  /\ UNCHANGED <<disk, roots, temp, peer, rem, bk>>

(* What the client decides: a command arrives, or the client is gone. *)
Receive ==
  \/ \E c \in Commands : \E e \in EnvsOf(c) : ReadCommand(c, e)
  \/ ReadExit
  \/ ReadEOF

(* What the process does by itself once a command has been read. *)
Serve ==
  \/ Usage
  \/ Unknown
  \/ Upload
  \/ Download
  \/ Remove
  \/ DownloadTar
  \/ Pathname
  \/ TarRelayStep
  \/ TarRelaySpin
  \/ TarRelayDone
  \/ LoopBack

Next == Receive \/ Serve

Spec == Init /\ [][Next]_vars

(* The process is scheduled again and again: a handler that can take a step *)
(* takes it.  Nothing is assumed of the client.                             *)
FairSpec == Spec /\ WF_vars(Serve)

(* ---------------------------------------------------------------------- *)
(* List over stores that earlier connections have filled: two names per    *)
(* extension in the directory DEST names, each there or not.               *)
(* ---------------------------------------------------------------------- *)
B_C == <<"b", ".", "c">>
B_PDF == <<"b", ".", "p", "d", "f">>
B_ZIP == <<"b", ".", "z", "i", "p">>
ListPaths ==
  {DIR_S1 \o Drop(VPath(n), 3) : n \in {A_C, B_C}}
    \cup {DIR_S2 \o Drop(VPath(n), 3) : n \in {A_PDF, B_PDF}}
    \cup {DIR_S4 \o Drop(VPath(n), 3) : n \in {A_ZIP, B_ZIP}}

ListInit ==
  /\ disk \in {[p \in S |-> <<>>] : S \in SUBSET ListPaths}
  /\ roots = {DIR_S1, DIR_S2, DIR_S4}
  /\ temp = FALSE
  /\ pc = "idle"
  /\ peer = "open"
  /\ cmd = Command("none", <<>>, NoArg, <<>>)
  /\ env = NoFault
  /\ out = <<>>
  /\ conns = <<>>
  /\ socks = <<>>
  /\ rem = 0
  /\ bk = <<>>
  /\ hist = NoHist

(* recv returned a dispfnames line. *)
ListRead ==
  \E c \in {Command("dispfnames", <<>>, p, <<>>) : p \in {DEST, TOK_S1}} :
    \E e \in EnvsOf(c) : ReadCommand(c, e)

ListNext == ListRead \/ Pathname \/ LoopBack

ListSpec == ListInit /\ [][ListNext]_vars

(* ---------------------------------------------------------------------- *)
(* A node by itself: S2 or S3 has accepted a connection and serves a 'T'    *)
(* command on it.  cmd.name is the directory of the node, cmd.arg the file  *)
(* type it received, out what it wrote to the socket.                       *)
(* ---------------------------------------------------------------------- *)
NodeInit ==
  /\ roots \in SUBSET {DIR_S2, DIR_S3}
  /\ disk \in {[p \in S |-> Content(1)] :
                S \in SUBSET {r \o Drop(VPath(n), 3) : r \in roots, n \in {A_PDF, A_TXT}}}
  /\ temp = FALSE
  /\ pc = "idle"
  /\ peer = "open"
  /\ cmd = Command("none", <<>>, NoArg, <<>>)
  /\ env = NoFault
  /\ out = <<>>
  /\ conns = <<>>
  /\ socks = <<>>
  /\ rem = 0
  /\ bk = <<>>
  /\ hist = NoHist

(* main of the node: accept, read the command byte 'T', handle_downloadtar. *)
NodeServeTar ==
  \E n \in {"S2", "S3"}, filetype \in {<<"p", "d", "f">>, <<"t", "x", "t">>},
     sys \in {"ok", "mkdir", "tar", "open"} :
    /\ pc = "idle"
    /\ pc' = "returned"
    /\ cmd' = Command("T", NodeDir(n), filetype, <<>>)
    /\ env' = [NoFault EXCEPT !.sys = sys]
    /\ out' = Node_handle_downloadtar(n, disk, roots, filetype, sys)
    /\ UNCHANGED <<disk, roots, temp, peer, conns, socks, rem, bk, hist>>

(* close(client_sock), back to accept. *)
NodeDone ==
  /\ pc = "returned"
  /\ pc' = "idle"
  /\ cmd' = Command("none", <<>>, NoArg, <<>>)
  /\ env' = NoFault
  /\ out' = <<>>
  /\ UNCHANGED <<disk, roots, temp, peer, conns, socks, rem, bk, hist>>

NodeNext == NodeServeTar \/ NodeDone

NodeSpec == NodeInit /\ [][NodeNext]_vars

(* ---------------------------------------------------------------------- *)
(* Two client connections at once: main has forked a child for each, and   *)
(* both run prcclient over the same file system and the same working       *)
(* directory.  pc, cmd, out and rem (the result of handle_upload_request)  *)
(* are per child; conns holds the uploads that were written to a node's    *)
(* socket and that the node, which serves one connection at a time, has    *)
(* not yet handled.  Each client sends one request.                        *)
(* ---------------------------------------------------------------------- *)
Ctx == {1, 2}

(* server_temp/cfiles.tar in the working directory of S1. *)
SCRATCH_TAR == <<"server_temp/cfiles.tar">>

PairInit ==
  /\ disk = [p \in {DIR_S1 \o Drop(VPath(A_C), 3)} |-> Content(1)]
  /\ roots = {DIR_S1}
  /\ temp = FALSE
  /\ pc = [i \in Ctx |-> "idle"]
  /\ peer = "open"
  /\ cmd = [i \in Ctx |-> Command("none", <<>>, NoArg, <<>>)]
  /\ env = NoFault
  /\ out = [i \in Ctx |-> <<>>]
  /\ conns = <<>>
  /\ socks = <<>>
  /\ rem = [i \in Ctx |-> 0]
  /\ bk = <<>>
  /\ hist = NoHist

(* recv in child i returned its client's request: a Store of i bytes or a  *)
(* local Archive.                                                          *)
PairRead(i) ==
  \E c \in {Command("uploadf", n, DEST, Content(i)) : n \in {B_C, A_PDF, A_TXT, A_ZIP}}
             \cup {Command("downltar", <<>>, <<".", "c">>, <<>>)} :
    /\ pc[i] = "idle"
    /\ pc' = [pc EXCEPT ![i] = "dispatch"]
    /\ cmd' = [cmd EXCEPT ![i] = c]
    /\ UNCHANGED <<disk, roots, temp, peer, env, out, conns, socks, rem, bk, hist>>

(* handle_upload_request in child i, one system call group at a time:      *)
(* send_file_to_server, or mkdir -p and then fopen/fwrite; then the write  *)
(* of the response.                                                        *)
PairStore(i) ==
  LET c == cmd[i]
      port == UploadPort(c.name)
      fullpath == DIR_S1 \o Drop(c.arg, 3) \o Slash \o c.name
      sent == [port |-> port, rel |-> ModDest(c.name, c.arg), data |-> c.data]
  IN  /\ c.op = "uploadf"
      /\ \/ /\ pc[i] = "dispatch"
            /\ port > 0
            /\ pc' = [pc EXCEPT ![i] = "respond"]
            /\ rem' = [rem EXCEPT ![i] = IF Listening(port, env) THEN 1 ELSE -1]
            /\ conns' = IF Listening(port, env) THEN Append(conns, sent) ELSE conns
            /\ UNCHANGED <<disk, roots, out>>
         \/ /\ pc[i] = "dispatch"
            /\ port = 0
            /\ pc' = [pc EXCEPT ![i] = "write"]
            /\ roots' = roots \cup {DIR_S1}
            /\ UNCHANGED <<disk, out, conns, rem>>
         \/ /\ pc[i] = "write"
            /\ pc' = [pc EXCEPT ![i] = "respond"]
            /\ disk' = WriteFile(disk, fullpath, c.data)
            /\ rem' = [rem EXCEPT ![i] = 1]
            /\ UNCHANGED <<roots, out, conns>>
         \/ /\ pc[i] = "respond"
            /\ pc' = [pc EXCEPT ![i] = "returned"]
            /\ out' = [out EXCEPT ![i] = <<UploadResponse(rem[i])>>]
            /\ UNCHANGED <<disk, roots, conns, rem>>
      /\ UNCHANGED <<temp, peer, cmd, env, socks, bk, hist>>

(* A node accepts the oldest connection waiting for it and runs            *)
(* handle_upload on it.                                                    *)
PairNodeUpload ==
  \E k \in 1..Len(conns) :
    /\ \A j \in 1..(k - 1) : conns[j].port # conns[k].port
    /\ disk' = Node_handle_upload(NodeAt(conns[k].port), disk, conns[k].rel, conns[k].data, TRUE)
    /\ roots' = Node_upload_dirs(NodeAt(conns[k].port), roots, conns[k].rel)
    /\ conns' = [j \in 1..(Len(conns) - 1) |-> IF j < k THEN conns[j] ELSE conns[j + 1]]
    /\ UNCHANGED <<temp, pc, peer, cmd, env, out, socks, rem, bk, hist>>

(* The local branch of handle_downloadtar_request in child i, in steps:    *)
(* the checks and mkdir server_temp; the find | tar command; fopen, the    *)
(* sends and the cleanup.                                                   *)
PairTar(i) ==
  LET ready == DIR_S1 \in roots /\ FilesBelow(disk, DIR_S1, EXT_C) # {} /\ ~temp
  IN  /\ cmd[i].op = "downltar"
      /\ \/ /\ pc[i] = "dispatch"
            /\ ~ready
            /\ pc' = [pc EXCEPT ![i] = "returned"]
            /\ out' = [out EXCEPT ![i] = TarLocal(env).out]
            /\ UNCHANGED <<disk, temp>>
         \/ /\ pc[i] = "dispatch"
            /\ ready
            /\ pc' = [pc EXCEPT ![i] = "tar"]
            /\ temp' = TRUE
            /\ UNCHANGED <<disk, out>>
         \/ /\ pc[i] = "tar"
            /\ pc' = [pc EXCEPT ![i] = "send"]
            /\ disk' = WriteFile(disk, SCRATCH_TAR, TarBlob(disk, DIR_S1, EXT_C))
            /\ UNCHANGED <<temp, out>>
         \/ /\ pc[i] = "send"
            /\ pc' = [pc EXCEPT ![i] = "returned"]
            /\ out' = [out EXCEPT ![i] = SendFile(disk[SCRATCH_TAR])]
            /\ disk' = RemoveFile(disk, SCRATCH_TAR)
            /\ temp' = FALSE
      /\ UNCHANGED <<roots, peer, cmd, env, conns, socks, rem, bk, hist>>

PairNext ==
  \/ \E i \in Ctx : PairRead(i) \/ PairStore(i) \/ PairTar(i)
  \/ PairNodeUpload

PairSpec == PairInit /\ [][PairNext]_vars

(* ---------------------------------------------------------------------- *)
(* A Store read from the client socket, read by read.  bk is what the      *)
(* client has written and S1 has not yet read: the command line, the size  *)
(* field, then the body byte by byte.  hist is the request the client      *)
(* wrote last, peer whether the client may write ("open") or waits for the *)
(* response ("waiting").  rem is size - received, cmd.data the buffer      *)
(* filedata as far as the receive loop has filled it.                      *)
(* ---------------------------------------------------------------------- *)
(* One write of the client as it lies in the socket. *)
Unit(t, v) == [t |-> t, v |-> v]

StreamInit ==
  /\ disk = <<>>
  /\ roots = {}
  /\ temp = FALSE
  /\ pc = "idle"
  /\ peer = "open"
  /\ cmd = Command("none", <<>>, NoArg, <<>>)
  /\ env = NoFault
  /\ out = <<>>
  /\ conns = <<>>
  /\ socks = <<>>
  /\ rem = 0
  /\ bk = <<>>
  /\ hist = NoHist

(* The client writes the command line and, in upload_file, the size and    *)
(* the body, then blocks in the read of the response.                      *)
ClientUpload ==
  \E n \in {A_C, A_PDF, A_X, A_NONE}, d \in Contents :
    /\ peer = "open"
    /\ pc = "idle"
    /\ peer' = "waiting"
    /\ hist' = [k |-> "sent", path |-> n, data |-> d]
    /\ bk' = <<Unit("line", Command("uploadf", n, DEST, <<>>)), Unit("size", Len(d))>>
               \o [i \in 1..Len(d) |-> Unit("byte", d[i])]
    /\ out' = <<>>
    /\ UNCHANGED <<disk, roots, temp, pc, cmd, env, conns, socks, rem>>

(* A Store that looks at the extension before it reads the size. *)
UploadEntryChecked(filename) == IF UploadPort(filename) < 0 THEN "route" ELSE "size"

(* Where handle_upload_request starts for a file name: at the read of the  *)
(* size, whatever the name.                                                *)
UploadEntry(filename) == "size"

(* prcclient: recv returned the command line; strtok; handle_upload_request *)
(* is called.                                                               *)
StreamRecv ==
  /\ pc = "idle"
  /\ bk # <<>>
  /\ Head(bk).t = "line"
  /\ cmd' = Head(bk).v
  /\ bk' = Tail(bk)
  /\ pc' = UploadEntry(Head(bk).v.name)
  /\ rem' = 0
  /\ UNCHANGED <<disk, roots, temp, peer, env, out, conns, socks, hist>>

(* read(client_sock, &size, sizeof(long)) *)
StreamReadSize ==
  /\ pc = "size"
  /\ bk # <<>>
  /\ Head(bk).t = "size"
  /\ rem' = Head(bk).v
  /\ bk' = Tail(bk)
  /\ pc' = "body"
  /\ UNCHANGED <<disk, roots, temp, peer, cmd, env, out, conns, socks, hist>>

(* One read of the receive loop: it returns between 1 and size - received  *)
(* of the bytes that have arrived.                                         *)
StreamReadBody ==
  \E chunk \in 1..rem :
    /\ pc = "body"
    /\ chunk <= Len(bk)
    /\ \A j \in 1..chunk : bk[j].t = "byte"
    /\ cmd' = [cmd EXCEPT !.data = cmd.data \o [j \in 1..chunk |-> bk[j].v]]
    /\ rem' = rem - chunk
    /\ bk' = Drop(bk, chunk)
    /\ UNCHANGED <<disk, roots, temp, pc, peer, env, out, conns, socks, hist>>

(* The rest of handle_upload_request once received = size: the file goes   *)
(* where its extension says and the response is written; the client reads  *)
(* it.                                                                      *)
StreamRoute ==
  /\ pc = "route" \/ (pc = "body" /\ rem = 0)
  /\ LET r == handle_upload_request(cmd.name, cmd.arg, cmd.data, env)
     IN  /\ out' = r.out
         /\ disk' = r.disk
         /\ roots' = r.roots
  /\ pc' = "idle"
  /\ peer' = "open"
  /\ UNCHANGED <<temp, cmd, env, conns, socks, rem, bk, hist>>

StreamNext == ClientUpload \/ StreamRecv \/ StreamReadSize \/ StreamReadBody \/ StreamRoute

StreamSpec == StreamInit /\ [][StreamNext]_vars

(* ---------------------------------------------------------------------- *)
(* The same Store when the recv of the command may return more than the    *)
(* command line: the client writes size and body right after the line, and *)
(* recv(client_sock, buffer, BUFFER_SIZE) returns what has arrived.  Two   *)
(* cases are taken: the line alone, and the line with everything written   *)
(* after it (it fits the buffer).                                          *)
(* ---------------------------------------------------------------------- *)

(* prcclient: recv returned the command line and, when all is set, all the *)
(* units behind it; strtok; handle_upload_request is called.  The third    *)
(* token runs on into the size field up to its first zero byte: one more   *)
(* character when the size is not 0.                                       *)
SegRecv ==
  \E all \in BOOLEAN :
    /\ pc = "idle"
    /\ bk # <<>>
    /\ Head(bk).t = "line"
    /\ cmd' = IF all /\ bk[2].v # 0
                THEN [Head(bk).v EXCEPT !.arg = @ \o <<ToString(bk[2].v)>>]
              ELSE Head(bk).v
    /\ bk' = IF all THEN <<>> ELSE Tail(bk)
    /\ pc' = UploadEntry(Head(bk).v.name)
    /\ rem' = 0
    /\ UNCHANGED <<disk, roots, temp, peer, env, out, conns, socks, hist>>

SegNext == ClientUpload \/ SegRecv \/ StreamReadSize \/ StreamReadBody \/ StreamRoute

SegSpec == StreamInit /\ [][SegNext]_vars

(* ---------------------------------------------------------------------- *)
(* The terminator writes that use the return value of recv as the index.   *)
(* rem holds bytes_received, hist the write made after the latest recv:    *)
(* the array and the index.                                                *)
(* Both arrays are char[BUFFER_SIZE]: their indices are 0..BUFFER_SIZE-1.  *)
(* ---------------------------------------------------------------------- *)

(* What recv(sock, buf, BUFFER_SIZE, 0) can return: -1 on an error, 0 when *)
(* the peer has closed, else the number of bytes, at most BUFFER_SIZE.     *)
(* The short reads taken are those of up to MaxRead bytes, next to the     *)
(* reads that fill the buffer or leave one byte of it.                     *)
MaxRead == 40

RecvResults == ((-1) .. MaxRead) \cup {BUFFER_SIZE - 1, BUFFER_SIZE}

TermInit ==
  /\ disk = <<>> /\ roots = {} /\ temp = {} /\ peer = "open"
  /\ cmd = Command("none", <<>>, <<>>, <<>>) /\ env = NoFault
  /\ out = <<>> /\ conns = <<>> /\ socks = <<>> /\ bk = <<>>
  /\ rem = 0
  /\ hist = [array |-> "none", index |-> 0]
  /\ pc = "recv"

(* prcclient: bytes_received = recv(client_sock, buffer, BUFFER_SIZE, 0).  *)
ConnRecv ==
  /\ pc = "recv"
  /\ \E n \in RecvResults : rem' = n
  /\ pc' = "received"
  /\ hist' = [array |-> "none", index |-> 0]
  /\ out' = <<>>
  /\ UNCHANGED <<disk, roots, temp, peer, cmd, env, conns, socks, bk>>

(* prcclient: if (bytes_received <= 0) break; buffer[bytes_received] = 0.  *)
ConnTerminate ==
  /\ pc = "received"
  /\ IF rem <= 0
       THEN pc' = "closed" /\ UNCHANGED hist
       ELSE pc' = "parsed" /\ hist' = [array |-> "buffer", index |-> rem]
  /\ UNCHANGED <<disk, roots, temp, peer, cmd, env, out, conns, socks, bk, rem>>

(* prcclient: a command that is not a Delete of a remote file is served    *)
(* and the loop comes back to its recv.                                    *)
ConnServeOther ==
  /\ pc = "parsed"
  /\ pc' = "recv"
  /\ UNCHANGED <<disk, roots, temp, peer, cmd, env, out, conns, socks, bk, rem, hist>>

(* handle_remove_request, remote file: bytes_received = recv(server_sock,  *)
(* response, BUFFER_SIZE, 0).                                              *)
RemoveRecv ==
  /\ pc = "parsed"
  /\ \E n \in RecvResults : rem' = n
  /\ pc' = "answered"
  /\ hist' = [array |-> "none", index |-> 0]
  /\ UNCHANGED <<disk, roots, temp, peer, cmd, env, out, conns, socks, bk>>

(* handle_remove_request: response[bytes_received] = 0 comes before the    *)
(* test of bytes_received; then the answer goes to the client.             *)
RemoveTerminate ==
  /\ pc = "answered"
  /\ hist' = [array |-> "response", index |-> rem]
  /\ out' = IF rem <= 0 THEN <<T("ENo response from storage server", 31)>>
                        ELSE <<[k |-> "forwarded", n |-> rem]>>
  /\ pc' = "recv"
  /\ UNCHANGED <<disk, roots, temp, peer, cmd, env, conns, socks, bk, rem>>

TermNext ==
  ConnRecv \/ ConnTerminate \/ ConnServeOther \/ RemoveRecv \/ RemoveTerminate

TermSpec == TermInit /\ [][TermNext]_vars

(* ---------------------------------------------------------------------- *)
(* One connection whose client names paths outside the namespace: a path   *)
(* that begins with "xS1" instead of "~S1", and one with a ".." segment.   *)
(* The handlers are those of Spec.                                          *)
(* ---------------------------------------------------------------------- *)
OFF_DEST == <<"x", "S", "1", "/", "d">>
UP_DEST == <<"~", "S", "1", "/", ".", ".">>

PathCommands ==
  {Command("uploadf", n, p, Content(1)) : n \in {A_C, A_PDF}, p \in {DEST, OFF_DEST, UP_DEST}}
    \cup {Command(op, <<>>, p \o Slash \o n, <<>>) :
             op \in {"downlf", "removef"}, n \in {A_C, A_PDF}, p \in {DEST, OFF_DEST, UP_DEST}}
    \cup {Command("dispfnames", <<>>, p, <<>>) : p \in {DEST, OFF_DEST, UP_DEST}}

PathNext ==
  \/ \E c \in PathCommands : ReadCommand(c, NoFault)
  \/ Upload
  \/ Download
  \/ Remove
  \/ Pathname
  \/ LoopBack

PathSpec == Init /\ [][PathNext]_vars

(* ---------------------------------------------------------------------- *)
(* main of S1: the accept loop, its children and the SIGCHLD handler.      *)
(* pc is where the parent stands, peer its listening socket, conns one     *)
(* record per accepted connection (fd: the parent's copy of the connected  *)
(* socket, kids: the children forked for it, child: the state of the       *)
(* child), rem the number of accepted connections, bk whether a SIGCHLD is *)
(* pending, hist how the last accept or fork went.                         *)
(* ---------------------------------------------------------------------- *)
MaxConns == 3

MainInit ==
  /\ pc = "accept"
  /\ peer = "listening"
  /\ conns = <<>>
  /\ rem = 0
  /\ bk = FALSE
  /\ hist = "none"
  /\ disk = <<>>
  /\ roots = {}
  /\ temp = FALSE
  /\ cmd = Command("none", <<>>, NoArg, <<>>)
  /\ env = NoFault
  /\ out = <<>>
  /\ socks = <<>>

(* accept returned -1 (also EINTR when a signal arrived): perror, continue. *)
MainAcceptFail ==
  /\ pc = "accept"
  /\ hist' = "accept failed"
  /\ UNCHANGED <<pc, peer, conns, rem, bk, disk, roots, temp, cmd, env, out, socks>>

(* accept returned a connected socket. *)
MainAccept ==
  /\ pc = "accept"
  /\ peer = "listening"
  /\ rem < MaxConns
  /\ rem' = rem + 1
  /\ conns' = Append(conns, [fd |-> "open", kids |-> 0, child |-> "none"])
  /\ pc' = "fork"
  /\ hist' = "accepted"
  /\ UNCHANGED <<peer, bk, disk, roots, temp, cmd, env, out, socks>>

(* fork returned -1: perror, close(new_socket), continue. *)
MainForkFail ==
  /\ pc = "fork"
  /\ conns' = [conns EXCEPT ![rem].fd = "closed"]
  /\ pc' = "accept"
  /\ hist' = "fork failed"
  /\ UNCHANGED <<peer, rem, bk, disk, roots, temp, cmd, env, out, socks>>

(* fork returned: the child closes its copy of the listening socket and    *)
(* runs prcclient on the connected one; the parent goes on.                *)
MainFork ==
  /\ pc = "fork"
  /\ conns' = [conns EXCEPT ![rem].kids = @ + 1, ![rem].child = "running"]
  /\ pc' = "close"
  /\ hist' = "forked"
  /\ UNCHANGED <<peer, rem, bk, disk, roots, temp, cmd, env, out, socks>>

(* The parent: close(new_socket). *)
MainClose ==
  /\ pc = "close"
  /\ conns' = [conns EXCEPT ![rem].fd = "closed"]
  /\ pc' = "wait"
  /\ UNCHANGED <<peer, rem, bk, hist, disk, roots, temp, cmd, env, out, socks>>

(* The parent: waitpid(-1, NULL, WNOHANG) reaps one child that has ended,  *)
(* if there is one, and does not block.                                    *)
MainWait ==
  /\ pc = "wait"
  /\ pc' = "accept"
  /\ \/ \E i \in 1..Len(conns) :
          /\ conns[i].child = "zombie"
          /\ conns' = [conns EXCEPT ![i].child = "reaped"]
     \/ /\ \A i \in 1..Len(conns) : conns[i].child # "zombie"
        /\ UNCHANGED conns
  /\ UNCHANGED <<peer, rem, bk, hist, disk, roots, temp, cmd, env, out, socks>>

(* A child ends: prcclient returned and exit(0) ran, or a signal ended it. *)
(* The kernel marks SIGCHLD pending for the parent.                        *)
ChildExit ==
  /\ \E i \in 1..Len(conns) :
       /\ conns[i].child = "running"
       /\ conns' = [conns EXCEPT ![i].child = "zombie"]
  /\ bk' = TRUE
  /\ UNCHANGED <<pc, peer, rem, hist, disk, roots, temp, cmd, env, out, socks>>

(* A handler with a single waitpid: it reaps one child per signal. *)
handle_sigchld_once(cs) ==
  [i \in 1..Len(cs) |->
     IF cs[i].child = "zombie" /\ \A j \in 1..(i - 1) : cs[j].child # "zombie"
       THEN [cs[i] EXCEPT !.child = "reaped"] ELSE cs[i]]

(* handle_sigchld: waitpid(-1, NULL, WNOHANG) until it returns no child.   *)
handle_sigchld(cs) ==
  [i \in 1..Len(cs) |->
     IF cs[i].child = "zombie" THEN [cs[i] EXCEPT !.child = "reaped"] ELSE cs[i]]

(* The pending SIGCHLD is delivered to the parent, wherever it stands; a   *)
(* child that ends while the handler runs makes the signal pending again.  *)
SigChld ==
  /\ bk = TRUE
  /\ conns' = handle_sigchld(conns)
  /\ bk' = FALSE
  /\ UNCHANGED <<pc, peer, rem, hist, disk, roots, temp, cmd, env, out, socks>>

MainNext ==
  \/ MainAcceptFail
  \/ MainAccept
  \/ MainForkFail
  \/ MainFork
  \/ MainClose
  \/ MainWait
  \/ ChildExit
  \/ SigChld

MainSpec == MainInit /\ [][MainNext]_vars

(* The kernel delivers a pending signal to the parent. *)
FairMainSpec == MainSpec /\ WF_vars(SigChld)

(* ---------------------------------------------------------------------- *)
(* handle_pathname_request, statement by statement, for the paths "~S1"    *)
(* followed by up to MaxTail characters: cmd.arg is pathname, hist the     *)
(* local array new_path, bk the static buffer of str_replace, conns the    *)
(* port and pathname of each request_files_from_server call so far, out    *)
(* the directory given to get_files_from_dir.                              *)
(* ---------------------------------------------------------------------- *)
MaxTail == 3

RECURSIVE Tails(_)
Tails(n) ==
  IF n = 0 THEN {<<>>}
  ELSE Tails(n - 1) \cup {Append(t, c) : t \in Tails(n - 1), c \in {"S", "1", "/", "d"}}

RewriteInit ==
  /\ cmd \in {Command("dispfnames", <<>>, TOK_S1 \o t, <<>>) : t \in Tails(MaxTail)}
  /\ pc = "collect"
  /\ hist = <<>>
  /\ bk = <<>>
  /\ conns = <<>>
  /\ out = <<>>
  /\ disk = <<>>
  /\ roots = {}
  /\ temp = FALSE
  /\ peer = "open"
  /\ env = NoFault
  /\ socks = <<>>
  /\ rem = 0

(* COLLECT_FILES("S1", ".c"): base_path is $HOME/S1 and pathname + 3. *)
RewriteCollect ==
  /\ pc = "collect"
  /\ out' = DIR_S1 \o Drop(cmd.arg, 3)
  /\ pc' = "S2"
  /\ UNCHANGED <<disk, roots, temp, peer, cmd, env, conns, socks, rem, bk, hist>>

(* snprintf(new_path, ..., pathname); str_replace(new_path, "S1", "Sn");   *)
(* request_files_from_server(port, the pointer str_replace returned): the  *)
(* static buffer when "S1" was found, new_path itself when not.            *)
RewriteRequest ==
  /\ pc \in Nodes
  /\ LET replaced == str_replace(cmd.arg, STR_S1, NodeDir(pc))
         found == StrStr(cmd.arg, STR_S1) # 0
     IN  /\ hist' = cmd.arg
         /\ bk' = IF found THEN replaced ELSE bk
         /\ conns' = Append(conns, [port |-> TargetPort(NodeExt(pc)),
                                    path |-> IF found THEN replaced ELSE cmd.arg])
  /\ pc' = CASE pc = "S2" -> "S3" [] pc = "S3" -> "S4" [] OTHER -> "sort"
  /\ UNCHANGED <<disk, roots, temp, peer, cmd, env, out, socks, rem>>

RewriteNext == RewriteCollect \/ RewriteRequest

RewriteSpec == RewriteInit /\ [][RewriteNext]_vars

(* ---------------------------------------------------------------------- *)
(* List over stores that hold files in two directories, d and e: the List  *)
(* of S1 as in ListSpec, and the 'L' command served by each node itself.   *)
(* ---------------------------------------------------------------------- *)
DirPaths ==
  {r \o <<"/", "d", "/">> \o <<"a">> \o NodeExtOrC(r) : r \in {DIR_S1, DIR_S2, DIR_S3, DIR_S4}}
    \cup {r \o <<"/", "e", "/">> \o <<"b">> \o NodeExtOrC(r) : r \in {DIR_S1, DIR_S2, DIR_S3, DIR_S4}}

DirInit ==
  /\ disk \in {[p \in S |-> <<>>] : S \in SUBSET DirPaths}
  /\ roots = {DIR_S1, DIR_S2, DIR_S3, DIR_S4}
  /\ temp = FALSE
  /\ pc = "idle"
  /\ peer = "open"
  /\ cmd = Command("none", <<>>, NoArg, <<>>)
  /\ env = NoFault
  /\ out = <<>>
  /\ conns = <<>>
  /\ socks = <<>>
  /\ rem = 0
  /\ bk = <<>>
  /\ hist = NoHist

(* main of a node: accept, read the command byte 'L', handle_listing with  *)
(* the path S1 sends for ~S1/d or ~S1/e; the reply is what it writes.      *)
NodeServeList ==
  \E n \in Nodes, sub \in {<<"/", "d">>, <<"/", "e">>} :
    /\ pc = "idle"
    /\ pc' = "returned"
    /\ cmd' = Command("L", NodeDir(n), <<"~">> \o NodeDir(n) \o sub, <<>>)
    /\ env' = NoFault
    /\ out' = Node_handle_listing(n, disk, <<"~">> \o NodeDir(n) \o sub, "asc")
    /\ UNCHANGED <<disk, roots, temp, peer, conns, socks, rem, bk, hist>>

DirNext == ListRead \/ Pathname \/ NodeServeList \/ LoopBack

DirSpec == DirInit /\ [][DirNext]_vars

(* ---------------------------------------------------------------------- *)
(* The local branch of handle_download_request after fopen succeeded, send *)
(* by send, for a file of hist bytes: rem is file_size, out the sends so   *)
(* far, a piece of content as the offset it was read at and its length.    *)
(* ---------------------------------------------------------------------- *)
MaxChunks == 2

(* A chunk that is always the whole buffer. *)
chunk_size_full(file_size) == BUFFER_SIZE

(* chunk_size = file_size > BUFFER_SIZE ? BUFFER_SIZE : file_size *)
chunk_size(file_size) == IF file_size > BUFFER_SIZE THEN BUFFER_SIZE ELSE file_size

ChunkInit ==
  /\ hist \in 0..(MaxChunks * BUFFER_SIZE + 1)
  /\ rem = hist
  /\ pc = "opened"
  /\ out = <<>>
  /\ disk = <<>>
  /\ roots = {DIR_S1}
  /\ temp = FALSE
  /\ peer = "open"
  /\ cmd = Command("downlf", <<>>, VPath(A_C), <<>>)
  /\ env = NoFault
  /\ conns = <<>>
  /\ socks = <<>>
  /\ bk = <<>>

(* ftell, then the sends of status 1 and of file_size. *)
ChunkHeader ==
  /\ pc = "opened"
  /\ out' = <<L(1), L(rem)>>
  /\ pc' = "loop"
  /\ UNCHANGED <<disk, roots, temp, peer, cmd, env, conns, socks, rem, bk, hist>>

(* One turn of while (file_size > 0): fread and send of chunk_size bytes. *)
ChunkSend ==
  /\ pc = "loop"
  /\ rem > 0
  /\ out' = Append(out, [k |-> "chunk", off |-> hist - rem, n |-> chunk_size(rem)])
  /\ rem' = rem - chunk_size(rem)
  /\ UNCHANGED <<disk, roots, temp, pc, peer, cmd, env, conns, socks, bk, hist>>

(* file_size is not above 0: fclose, return. *)
ChunkDone ==
  /\ pc = "loop"
  /\ rem <= 0
  /\ pc' = "returned"
  /\ UNCHANGED <<disk, roots, temp, peer, cmd, env, out, conns, socks, rem, bk, hist>>

ChunkNext == ChunkHeader \/ ChunkSend \/ ChunkDone

ChunkSpec == ChunkInit /\ [][ChunkNext]_vars

(* The process is scheduled: the handler goes on while it can. *)
FairChunkSpec == ChunkSpec /\ WF_vars(ChunkNext)

(* ---------------------------------------------------------------------- *)
(* The client w25clients and prcclient on one connection.  bk is what the  *)
(* client has sent and S1 has not read, one entry per send; out what S1    *)
(* has sent and the client has not read, one entry per response; hist the  *)
(* client: n the commands typed so far, wait where it stands ("prompt",    *)
(* "list_file" on entry of list_file, "response" in the recv of a          *)
(* response), got the command whose response it read last.  Lines and     *)
(* responses carry the number of the command they belong to; rem is that   *)
(* number for the line S1 is serving.                                      *)
(* ---------------------------------------------------------------------- *)
MaxCmds == 3

LockInit ==
  /\ disk = [q \in {DIR_S1 \o Drop(VPath(A_C), 3), DIR_S2 \o Drop(VPath(A_PDF), 3)} |-> Content(1)]
  /\ roots = {DIR_S1, DIR_S2, DIR_S4}
  /\ temp = FALSE
  /\ pc = "idle"
  /\ peer = "open"
  /\ cmd = Command("none", <<>>, NoArg, <<>>)
  /\ env = NoFault
  /\ out = <<>>
  /\ conns = <<>>
  /\ socks = <<>>
  /\ rem = 0
  /\ bk = <<>>
  /\ hist = [n |-> 0, wait |-> "prompt", got |-> 0]

(* main of the client: a removef or dispfnames line is typed, checked and  *)
(* sent; remove_file goes to its recv, list_file is entered.               *)
ClientType ==
  \E c \in {Command("removef", <<>>, VPath(A_C), <<>>),
             Command("removef", <<>>, VPath(A_PDF), <<>>),
             Command("dispfnames", <<>>, DEST, <<>>)} :
    /\ hist.wait = "prompt"
    /\ hist.n < MaxCmds
    /\ bk' = Append(bk, [n |-> hist.n + 1, c |-> c])
    /\ hist' = [hist EXCEPT !.n = @ + 1,
                            !.wait = IF c.op = "dispfnames" THEN "list_file" ELSE "response"]
    /\ UNCHANGED <<disk, roots, temp, pc, peer, cmd, env, out, conns, socks, rem>>

(* list_file: snprintf and send of the dispfnames line, then the recv. *)
ClientListSend ==
  /\ hist.wait = "list_file"
  /\ bk' = Append(bk, [n |-> hist.n, c |-> Command("dispfnames", <<>>, DEST, <<>>)])
  /\ hist' = [hist EXCEPT !.wait = "response"]
  /\ UNCHANGED <<disk, roots, temp, pc, peer, cmd, env, out, conns, socks, rem>>

(* prcclient: recv returns the bytes of the oldest send, or of the two     *)
(* oldest when both have arrived; strtok takes the first two tokens, the   *)
(* second being the path run together with the start of the second line.   *)
GatewayRecv ==
  /\ pc = "idle"
  /\ bk # <<>>
  /\ \/ /\ cmd' = Head(bk).c
        /\ bk' = Tail(bk)
     \/ /\ Len(bk) >= 2
        /\ cmd' = [Head(bk).c EXCEPT !.arg = @ \o <<"d", "i", "s", "p", "f", "n", "a", "m", "e", "s">>]
        /\ bk' = Tail(Tail(bk))
  /\ rem' = Head(bk).n
  /\ pc' = "dispatch"
  /\ UNCHANGED <<disk, roots, temp, peer, env, out, conns, socks, hist>>

(* prcclient: the handler of the command runs and sends its response. *)
GatewayServe ==
  /\ pc = "dispatch"
  /\ LET r == IF cmd.op = "removef" THEN handle_remove_request(cmd.arg, NoFault)
              ELSE handle_pathname_request(cmd.arg, NoFault)
     IN  /\ out' = Append(out, [n |-> rem, fields |-> r.out])
         /\ disk' = r.disk
  /\ pc' = "idle"
  /\ UNCHANGED <<roots, temp, peer, cmd, env, conns, socks, rem, bk, hist>>

(* remove_file and list_file: the recvs take the oldest response in the    *)
(* socket; the client is back at its prompt.                               *)
ClientConsume ==
  /\ hist.wait = "response"
  /\ out # <<>>
  /\ hist' = [hist EXCEPT !.wait = "prompt", !.got = Head(out).n]
  /\ out' = Tail(out)
  /\ UNCHANGED <<disk, roots, temp, pc, peer, cmd, env, conns, socks, rem, bk>>

LockNext == ClientType \/ ClientListSend \/ GatewayRecv \/ GatewayServe \/ ClientConsume

LockSpec == LockInit /\ [][LockNext]_vars

(* ---------------------------------------------------------------------- *)
(* The properties.                                                          *)
(* ---------------------------------------------------------------------- *)

(* The handler of the request has returned. *)
Returned == pc = "returned"

(* The file name or path whose extension routes the request. *)
Routed == IF cmd.op = "uploadf" THEN cmd.name ELSE cmd.arg

(* The bytes of the fields of o from the i-th on. *)
RECURSIVE BodyBytes(_, _)
BodyBytes(o, i) == IF i > Len(o) THEN 0 ELSE FieldBytes(o[i]) + BodyBytes(o, i + 1)

(* status 1, size, then size bytes of content. *)
SuccessFrame(o) ==
  /\ Len(o) >= 2
  /\ o[1] = L(1)
  /\ o[2].k = "long"
  /\ \A i \in 3..Len(o) : o[i].k = "bytes"
  /\ BodyBytes(o, 3) = o[2].v

(* status 1, count, then a length and a name per file. *)
ListFrame(o) ==
  /\ Len(o) >= 2
  /\ o[1] = L(1)
  /\ o[2].k = "int"
  /\ Len(o) = 2 + 2 * o[2].v
  /\ \A i \in 1..o[2].v : o[2 * i + 1] = I(Len(o[2 * i + 2].c))

(* status -1, a length above 0, then that many bytes of message. *)
FailureFrame(o) ==
  /\ Len(o) = 3
  /\ o[1] = L(-1)
  /\ o[2].k = "int"
  /\ o[2].v > 0
  /\ o[3].k = "text"
  /\ o[3].n = o[2].v

(* C1: a Store of a supported file with nothing going wrong, followed at once *)
(* by a Retrieve of the path it was stored at with nothing going wrong, sends *)
(* the client status 1, the length of the stored bytes and exactly these.     *)
C1_RoundTrip ==
  (Returned /\ cmd.op = "downlf" /\ CleanEnv(env) /\ hist.k = "store" /\ hist.path = cmd.arg)
    => out = <<L(1), L(Len(hist.data))>>
               \o (IF hist.data = <<>> THEN <<>> ELSE <<B(hist.data)>>)

(* C2: when nothing goes wrong around a request, what its handler has sent    *)
(* the client is status 1, size and content (for a listing: status 1, count   *)
(* and names), or status -1, message length and message.                      *)
C2_Framed ==
  (Returned /\ CleanEnv(env))
    => (SuccessFrame(out) \/ FailureFrame(out) \/ (cmd.op = "dispfnames" /\ ListFrame(out)))

C4_Refused ==
  (pc \notin {"idle", "dispatch", "closed"} /\ cmd.op \in {"downlf", "removef", "downltar"}
     /\ conns # <<>> /\ ~Listening(conns[1], env))
    => (Returned /\ FailureFrame(out))

C4_Witness ==
  Returned /\ cmd.op = "downltar" /\ conns = <<6072>> /\ ~Listening(6072, env)
    /\ out[1] = L(-1)

(* C5: after a Store of a supported file, a Delete of its path and then a     *)
(* Retrieve of the same path, nothing going wrong around any of them, the     *)
(* Retrieve has sent a failure frame with the message "EFile not found".      *)
C5_DeleteThenRetrieve ==
  (Returned /\ cmd.op = "downlf" /\ CleanEnv(env) /\ hist.k = "delete" /\ hist.path = cmd.arg)
    => (FailureFrame(out) /\ out[3].s = "EFile not found")

C7_ClosedOnce ==
  Returned
    => /\ Len(socks) = 2 * Len(conns)
       /\ \A i \in 1..Len(socks) : socks[i] = IF i % 2 = 1 THEN "open" ELSE "close"

C7_Witness ==
  Returned /\ cmd.op = "downltar" /\ Len(out) = 3 /\ out[3].k = "bytes"
    /\ socks = <<"open", "close">>

(* C8: every Archive request that is dispatched gets back to the recv at the  *)
(* top of the loop.                                                           *)
C8_Returns == (pc = "dispatch" /\ cmd.op = "downltar") ~> (pc = "idle")

(* C9: a Store whose body the client cut short reports no success, and a      *)
(* Retrieve whose node closed before its status byte sends the client nothing *)
(* after the status the gateway sent before it read.                          *)
C9_ShortRead ==
  /\ (Returned /\ cmd.op = "uploadf" /\ env.got >= 0)
       => out # <<T("File uploaded successfully.", 28)>>
  /\ (Returned /\ cmd.op = "downlf" /\ conns # <<>> /\ Listening(conns[1], env)
        /\ env.die = 0)
       => out = <<L(1)>>

(* C10: the connection ends only by the client: prcclient is never killed.    *)
C10_LoopSurvives == pc # "killed"

(* The names a listing o sends, in the order it sends them. *)
ListNames(o) == [i \in 1..((Len(o) - 2) \div 2) |-> o[2 * i + 2].c]

(* The place of the extension of a name in the order c, pdf, txt, zip. *)
Rank(name) ==
  CASE DotExt(name) = <<".", "c">> -> 1
    [] DotExt(name) = <<".", "p", "d", "f">> -> 2
    [] DotExt(name) = <<".", "t", "x", "t">> -> 3
    [] DotExt(name) = <<".", "z", "i", "p">> -> 4
    [] OTHER -> 0

(* How often x occurs in the sequence s. *)
Occurs(x, s) == Cardinality({i \in 1..Len(s) : s[i] = x})

(* The entries handle_pathname_request collects, as readdir and the nodes   *)
(* hand them out.                                                           *)
Collected ==
  EntryNames(get_files_from_dir(DIR_S1 \o Drop(cmd.arg, 3), EXT_C, env)
    \o request_files_from_server(PORT_S2, str_replace(cmd.arg, STR_S1, DIR_S2), EXT_PDF, env)
    \o request_files_from_server(PORT_S3, str_replace(cmd.arg, STR_S1, DIR_S3), EXT_TXT, env)
    \o request_files_from_server(PORT_S4, str_replace(cmd.arg, STR_S1, DIR_S4), EXT_ZIP, env))

DialledPort(n) ==
  CASE n = "S2" -> 6072
    [] n = "S3" -> 6073
    [] n = "S4" -> 6074

(* The backend n accepts the connection of the List request. *)
Answers(n) == n \in env.alive /\ ListenPort(n) = DialledPort(n)

(* The names of the files with extension ext that lie in directory dir. *)
NamesIn(dir, ext) ==
  {BaseName(p) : p \in {q \in DOMAIN disk : DirName(q) = dir /\ DotExt(BaseName(q)) = ext}}

(* C12: in a List, a backend that refuses the connection or reports no file *)
(* adds no entry and does not fail the listing: the client gets status 1,   *)
(* every local .c file of the directory and every file of the directory on  *)
(* each backend that answers, and no name of a backend that refused.        *)
C12_ListTolerant ==
  (Returned /\ cmd.op = "dispfnames" /\ cmd.arg # NoArg /\ env.die = -1) =>
    LET sent == {ListNames(out)[i] : i \in 1..Len(ListNames(out))}
        sub == Drop(cmd.arg, 3)
    IN  /\ ListFrame(out)
        /\ out[1] = L(1)
        /\ NamesIn(DIR_S1 \o sub, EXT_C) \subseteq sent
        /\ \A n \in Nodes :
             IF Answers(n) THEN NamesIn(NodeDir(n) \o sub, NodeExt(n)) \subseteq sent
             ELSE \A x \in sent : DotExt(x) # NodeExt(n)

(* A List while S2 refuses and holds a file of the directory, S1 and S4     *)
(* hold one each: the two others are listed.                                *)
C12_Witness ==
  /\ Returned
  /\ cmd.op = "dispfnames"
  /\ cmd.arg = DEST
  /\ env.alive = {"S3", "S4"}
  /\ NamesIn(DIR_S2 \o Drop(DEST, 3), EXT_PDF) # {}
  /\ ListNames(out) = <<A_C, A_ZIP>>

(* A List has returned while at least one backend refused the connection. *)
ListWithRefusal ==
  /\ Returned
  /\ cmd.op = "dispfnames"
  /\ cmd.arg # NoArg
  /\ \E n \in Nodes : ~Answers(n)

RemoteStore ==
  /\ Returned
  /\ cmd.op = "uploadf"
  /\ cmd.arg # NoArg
  /\ conns # <<>>
  /\ Listening(conns[1], env)
StoreNode == NodeAt(conns[1])
StorePath == NodeDir(StoreNode) \o Drop(cmd.arg, 3) \o Slash \o cmd.name

(* C14: a Store forwarded to a node answers success only if the node has   *)
(* persisted the file: after "File uploaded successfully." the file is on   *)
(* the node with the bytes S1 forwarded.                                    *)
C14_StoreOutcome ==
  (RemoteStore /\ out = <<T("File uploaded successfully.", 28)>>) =>
    /\ HasFile(disk, StorePath)
    /\ disk[StorePath] = FileData(cmd.data, env)

(* C15: after forwarding a Store, S1 reads the completion message of the    *)
(* node and sends the client exactly the bytes of that message.             *)
C15_RelaysCompletion ==
  RemoteStore =>
    /\ Node_upload_reply(StoreNode, env.sys # "write") # <<>>
    /\ out = Node_upload_reply(StoreNode, env.sys # "write")

(* An Archive that S1 forwarded to a node has sent the status on. *)
RemoteArchive ==
  /\ pc \in {"returned", "tar_relay"}
  /\ cmd.op = "downltar"
  /\ conns # <<>>
  /\ Listening(conns[1], env)
  /\ out # <<>>
  /\ out[1].k = "long"

(* C16: for a forwarded Archive S1 reads and sends on a size only when the  *)
(* status of the node is 1; after any other status the client is sent no    *)
(* size, and no content (after -1: the length and the bytes of a message).  *)
C16_SizeOnlyOnSuccess ==
  (RemoteArchive /\ out[1] # L(1)) =>
    \A i \in 2..Len(out) :
      /\ out[i].k # "long"
      /\ out[1] # L(-1) => out[i].k # "bytes"

(* The node that served the 'T' command. *)
ServingNode == CHOOSE n \in Nodes : NodeDir(n) = cmd.name

(* C17: S2, asked for pdf, and S3, asked for txt, answer 'T' with a status   *)
(* field first: on success status 1, the size of the archive and that many  *)
(* bytes, on failure status -1, the length of a message and the message.    *)
C17_NodeFraming ==
  (pc = "returned" /\ cmd.op = "T" /\ <<".">> \o cmd.arg = NodeExt(ServingNode)) =>
    \/ /\ SuccessFrame(out)
       /\ out[2].v = Len(TarBlob(disk, cmd.name, <<".">> \o cmd.arg))
    \/ FailureFrame(out)

(* An Archive whose type, after the dot, is none of c, pdf and txt is about  *)
(* to be handled.                                                           *)
InvalidArchive ==
  /\ pc = "dispatch"
  /\ cmd.op = "downltar"
  /\ cmd.arg # NoArg
  /\ Drop(cmd.arg, 1) \notin {<<"c">>, <<"p", "d", "f">>, <<"t", "x", "t">>}

LocalArchiveReturned ==
  /\ Returned
  /\ cmd.op = "downltar"
  /\ cmd.arg = <<".", "c">>

(* C19: after a local Archive has returned, however it ended, the scratch   *)
(* directory is gone, and a local Archive is not refused for a scratch      *)
(* directory that an earlier one left behind.                               *)
C19_NoScratchLeft ==
  LocalArchiveReturned =>
    /\ temp = FALSE
    /\ env.sys # "mkdir" => out # Frame("ECould not create temp directory")

(* A local Archive is about to be handled while ~/S1 is missing or holds no *)
(* .c file.                                                                 *)
NothingToArchive ==
  /\ pc = "dispatch"
  /\ cmd.op = "downltar"
  /\ cmd.arg = <<".", "c">>
  /\ (DIR_S1 \notin roots \/ FilesBelow(disk, DIR_S1, <<".", "c">>) = {})

(* C20: a local Archive while the local store is missing or holds no .c    *)
(* file returns a failure frame whose message is not the one of a failed    *)
(* tar, and leaves the scratch directory as it was.                         *)
C20_NothingToArchive ==
  [][NothingToArchive =>
       /\ pc' = "returned"
       /\ FailureFrame(out')
       /\ out'[3].s # "ETar creation failed"
       /\ temp' = temp]_vars

(* A local Archive has returned "no .c files" for an existing, empty store  *)
(* although the tar command would have failed.                              *)
C20_Witness ==
  /\ LocalArchiveReturned
  /\ DIR_S1 \in roots
  /\ FilesBelow(disk, DIR_S1, <<".", "c">>) = {}
  /\ env.sys = "tar"
  /\ temp = FALSE
  /\ out = Frame("ENo .c files found in S1 directory")

(* Both children have answered a Store, of different file names, and the   *)
(* nodes have handled what was sent to them.                                *)
BothStored ==
  /\ \A i \in Ctx : pc[i] = "returned" /\ cmd[i].op = "uploadf"
  /\ cmd[1].name # cmd[2].name
  /\ conns = <<>>

(* C21: two Stores from two connections at once, to different paths, are  *)
(* both answered with success, and afterwards a Retrieve of each path      *)
(* sends exactly the bytes its own connection stored.                      *)
C21_ConcurrentStores ==
  BothStored =>
    \A i \in Ctx :
      /\ out[i] = <<T("File uploaded successfully.", 28)>>
      /\ handle_download_request(VPath(cmd[i].name), NoFault).out = SendFile(Content(i))

(* C22: two local Archives from two connections at overlapping times do    *)
(* not interfere: each is answered with status 1, the size and the bytes   *)
(* of the archive of the local .c files.                                   *)
C22_ConcurrentArchives ==
  (\A i \in Ctx : pc[i] = "returned" /\ cmd[i].op = "downltar") =>
    \A i \in Ctx : out[i] = SendFile(TarBlob(disk, DIR_S1, <<".", "c">>))

(* A Store, Retrieve or Delete is about to be handled whose file name or    *)
(* path ends in no extension or in one other than c, pdf, txt and zip.      *)
UnsupportedRequest ==
  /\ pc = "dispatch"
  /\ cmd.op \in {"uploadf", "downlf", "removef"}
  /\ cmd.arg # NoArg
  /\ DotExt(Routed) \notin {<<".", "c">>, <<".", "p", "d", "f">>, <<".", "t", "x", "t">>,
                            <<".", "z", "i", "p">>}

(* C23: a Retrieve or Delete of a path with an extension outside c, pdf,   *)
(* txt, zip is answered with an error, and it and a Store of such a file   *)
(* name open no connection to a node and leave the stores as they were.    *)
C23_UnsupportedNoIO ==
  [][UnsupportedRequest =>
       /\ pc' = "returned"
       /\ conns' = <<>>
       /\ socks' = <<>>
       /\ disk' = disk
       /\ roots' = roots
       /\ temp' = temp
       /\ cmd.op = "downlf" =>
            out' \in {Frame("EInvalid file: no extension"), <<T("EUnsupported file type", 22)>>}
       /\ cmd.op = "removef" =>
            out' \in {<<T("EInvalid file: no extension", 27)>>,
                      <<T("EUnsupported file type", 22)>>}
       /\ cmd.op = "uploadf" => out' # <<T("File uploaded successfully.", 28)>>]_vars

(* A Delete of a.x has been refused while the stores hold files. *)
C23_Witness ==
  /\ Returned
  /\ cmd.op = "removef"
  /\ cmd.arg = VPath(A_X)
  /\ DOMAIN disk # {}
  /\ conns = <<>>
  /\ out = <<T("EUnsupported file type", 22)>>

(* The response to a Store whose file name has no extension or one other   *)
(* than c, pdf, txt, zip has been written.                                 *)
StoreRejected ==
  /\ pc = "idle"
  /\ cmd.op = "uploadf"
  /\ out # <<>>
  /\ DotExt(cmd.name) \notin {<<".", "c">>, <<".", "p", "d", "f">>, <<".", "t", "x", "t">>,
                             <<".", "z", "i", "p">>}

TurnedDown(o) ==
  /\ o # <<>>
  /\ o # <<UploadResponse(1)>>
  /\ o[1] = L(1) =>
       /\ Len(o) = 2
       /\ o[2].k = "text"
       /\ o[2].s # "SFile deleted successfully"

(* A request is about to be handled whose path does not begin with "~S1". *)
OffNamespace == pc = "dispatch" /\ cmd.arg # NoArg /\ ~StartsWith(cmd.arg, TOK_S1)

(* C25: a Store, Retrieve, Delete or List whose path does not begin with   *)
(* ~S1 is answered with an error, changes no local file and connects to no *)
(* node.                                                                   *)
C25_PrefixRequired ==
  [][OffNamespace =>
       /\ TurnedDown(out')
       /\ disk' = disk
       /\ roots' = roots
       /\ conns' = <<>>]_vars

(* A request is about to be handled whose path has a ".." segment. *)
Traversal == pc = "dispatch" /\ StrStr(cmd.arg \o Slash, <<"/", ".", ".", "/">>) # 0

(* C26: a Store, Retrieve, Delete or List whose path has a ".." segment is *)
(* rejected by S1 itself: it is answered with an error without a           *)
(* connection to a node, no file is written or removed and no directory    *)
(* made for it.                                                            *)
C26_TraversalRejected ==
  [][Traversal =>
       /\ TurnedDown(out')
       /\ socks' = <<>>
       /\ disk' = disk
       /\ roots' = roots]_vars

(* C27: the path of every Store request that S1 has sent to a node is the  *)
(* virtual path of the client, "~S1" included: the destination path of one *)
(* of the Store commands, alone or followed by "/" and the file name.      *)
C27_ForwardedUnmodified ==
  \A k \in 1..Len(conns) :
    \E i \in Ctx :
      /\ cmd[i].op = "uploadf"
      /\ UploadPort(cmd[i].name) = conns[k].port
      /\ conns[k].rel \in {cmd[i].arg, cmd[i].arg \o Slash \o cmd[i].name}

(* A Delete of a pdf, txt or zip path is about to be handled and the node  *)
(* for it accepts the connection.                                          *)
RemoteDelete ==
  /\ pc = "dispatch"
  /\ cmd.op = "removef"
  /\ cmd.arg # NoArg
  /\ TargetPort(DotExt(cmd.arg)) > 0
  /\ Listening(TargetPort(DotExt(cmd.arg)), env)

(* What the node writes back for the Delete before it closes: the response *)
(* of handle_remove as far as the node got, nothing from a node that has   *)
(* no case for 'R'.                                                        *)
NodeAnswer ==
  LET n == NodeAt(TargetPort(DotExt(cmd.arg)))
  IN  IF NodeHandles(n, "R") THEN Delivered(Node_handle_remove(n, disk, cmd.arg).reply, env)
      ELSE <<>>

(* The recv of the response returned what the node wrote, 0 bytes when it  *)
(* wrote nothing: every send to the node went well and the connection was  *)
(* not reset.                                                              *)
RecvReturned ==
  NodeHandles(NodeAt(TargetPort(DotExt(cmd.arg))), "R") \/ env.race = "eof"

BackendReply ==
  IF cmd.op = "downlf" THEN Node_handle_download(NodeAt(conns[1]), disk, cmd.arg).reply
  ELSE Node_handle_downloadtar(NodeAt(conns[1]), disk, roots, Drop(cmd.arg, 1), env.sys)

(* A Retrieve or Archive was forwarded to a node that accepted it, and the *)
(* node left out a field of its reply.                                     *)
BackendOmits ==
  /\ pc \in {"returned", "tar_relay"}
  /\ cmd.op \in {"downlf", "downltar"}
  /\ cmd.arg # NoArg
  /\ conns # <<>>
  /\ Listening(conns[1], env)
  /\ env.die >= 0
  /\ env.die < Len(BackendReply)

(* C29: when the node answers a forwarded Retrieve or Archive without a    *)
(* field it has to send, S1 sends the client a failure frame (status -1,   *)
(* length, message), alone or after the status 1 it sent before asking,    *)
(* sends no size and no content, closes the socket of the node and returns.*)
C29_BackendFailureFramed ==
  BackendOmits =>
    /\ pc = "returned"
    /\ FailureFrame(out) \/ (out # <<>> /\ out[1] = L(1) /\ FailureFrame(Tail(out)))
    /\ socks = <<"open", "close">>

(* The child of the i-th accepted connection is in state st. *)
ChildIs(i, st) == i <= Len(conns) /\ conns[i].child = st

ReceivedFrom(n) ==
  LET r == Delivered(Node_handle_listing(n, disk, str_replace(cmd.arg, STR_S1, NodeDir(n)),
                                         env.order), env)
      whole == {i \in 1..Len(r) : i > 2 /\ i % 2 = 0 /\ r[i].k = "name"}
  IN  IF ~Answers(n) \/ Len(r) < 2 \/ r[1] # L(1) THEN 0 ELSE Cardinality(whole)

(* The entries the backend n announced in its reply. *)
AnnouncedBy(n) ==
  LET r == Node_handle_listing(n, disk, str_replace(cmd.arg, STR_S1, NodeDir(n)), env.order)
  IN  IF Len(r) < 2 THEN 0 ELSE r[2].v

(* C31: in every List response the count equals the number of names sent   *)
(* after it, each with its length, and is the number of local entries plus *)
(* the entries that arrived from each backend, also when a backend closed  *)
(* after a part of the entries it announced.                               *)
C31_CountMatches ==
  (Returned /\ cmd.op = "dispfnames" /\ cmd.arg # NoArg) =>
    /\ ListFrame(out)
    /\ out[2].v = Len(ListNames(out))
    /\ out[2].v = Cardinality(NamesIn(DIR_S1 \o Drop(cmd.arg, 3), EXT_C))
                    + ReceivedFrom("S2") + ReceivedFrom("S3") + ReceivedFrom("S4")

(* A List during which S2 and S4, each holding two files of the directory, *)
(* closed after the first of the two entries they announced.               *)
C31_Witness ==
  /\ Returned
  /\ cmd.op = "dispfnames"
  /\ cmd.arg = DEST
  /\ env.die = 4
  /\ AnnouncedBy("S2") = 2
  /\ ReceivedFrom("S2") = 1
  /\ AnnouncedBy("S4") = 2
  /\ out[2] = I(2 + Cardinality(NamesIn(DIR_S1 \o Drop(DEST, 3), EXT_C)))

(* C32: the pathname of every List request S1 has sent to a node is the    *)
(* client's path with the leading "~S1" replaced by the node's token and   *)
(* every character after it as the client sent it, to port 6072 with ~S2,  *)
(* 6073 with ~S3 and 6074 with ~S4, in this order.                         *)
C32_LeadingTokenOnly ==
  \A k \in 1..Len(conns) :
    LET n == <<"S2", "S3", "S4">>[k]
    IN  /\ conns[k].port = DialledPort(n)
        /\ conns[k].path = <<"~">> \o NodeDir(n) \o Drop(cmd.arg, 3)

(* The three requests of a List of ~S1/S1 have been sent. *)
C32_Witness ==
  /\ cmd.arg = <<"~", "S", "1", "/", "S", "1">>
  /\ Len(conns) = 3
  /\ conns[3].path = <<"~", "S", "4", "/", "S", "1">>

(* The storage root that keeps the files with the extension of name x. *)
RootOf(x) ==
  CASE DotExt(x) = EXT_PDF -> DIR_S2
    [] DotExt(x) = EXT_TXT -> DIR_S3
    [] DotExt(x) = EXT_ZIP -> DIR_S4
    [] OTHER -> DIR_S1

(* C33: a List returns only names of files that lie directly in the listed *)
(* directory: every name S1 sends the client is a file of that directory   *)
(* in the store of its extension, and every name a node sends S1 is a file *)
(* of that directory in the node's store.                                  *)
C33_DirectChildrenOnly ==
  /\ (Returned /\ cmd.op = "dispfnames" /\ cmd.arg # NoArg) =>
       \A i \in 1..Len(ListNames(out)) :
         ListNames(out)[i] \in NamesIn(RootOf(ListNames(out)[i]) \o Drop(cmd.arg, 3),
                                       DotExt(ListNames(out)[i]))
  /\ (Returned /\ cmd.op = "L") =>
       \A i \in 1..Len(ListNames(out)) :
         ListNames(out)[i] \in NamesIn(cmd.name \o Drop(cmd.arg, 3),
                                       DotExt(ListNames(out)[i]))

(* The bytes of the pieces of content of o from the i-th field on. *)
RECURSIVE ChunkBytes(_, _)
ChunkBytes(o, i) == IF i > Len(o) THEN 0 ELSE o[i].n + ChunkBytes(o, i + 1)

(* C34: a local Retrieve of a file of N bytes sends status 1, then N, then *)
(* pieces of content of 1 to 1024 bytes each, read one after the other     *)
(* from the start of the file; the loop ends for every N >= 0, and then    *)
(* the pieces add up to N (none for N = 0).                                *)
C34_BoundedChunks ==
  /\ [](pc \in {"loop", "returned"} =>
          /\ Len(out) >= 2
          /\ out[1] = L(1)
          /\ out[2] = L(hist)
          /\ \A i \in 3..Len(out) :
               /\ out[i].n \in 1..BUFFER_SIZE
               /\ out[i].off = ChunkBytes(SubSeq(out, 1, i - 1), 3)
          /\ pc = "returned" => ChunkBytes(out, 3) = hist)
  /\ <>(pc = "returned")

(* A file of 2049 bytes has been sent as pieces of 1024, 1024 and 1 bytes. *)
C34_Witness ==
  /\ pc = "returned"
  /\ hist = 2 * BUFFER_SIZE + 1
  /\ Len(out) = 5
  /\ out[3].n = BUFFER_SIZE
  /\ out[4].n = BUFFER_SIZE
  /\ out[5].n = 1

(* C35: client and S1 are in lock-step: a command gets at most one         *)
(* response; when the client is back at its prompt it has read the         *)
(* response of the command it typed last, nothing it sent is unread or     *)
(* being served, and no response is left in the socket.                    *)
C35_LockStep ==
  /\ \A i \in 1..Len(out) : \A j \in 1..Len(out) : out[i].n = out[j].n => i = j
  /\ (hist.wait = "prompt") =>
       /\ hist.got = hist.n
       /\ bk = <<>>
       /\ pc = "idle"
       /\ out = <<>>

(* C36: the recv of the command takes the command line only: whenever      *)
(* handle_upload_request stands at the read of the size, the size field is *)
(* the next thing in the socket; and once a Store of a .c file has been    *)
(* answered, the file stored at its path is the body the client wrote.     *)
C36_SegmentationFree ==
  /\ pc = "size" => (bk # <<>> /\ Head(bk).t = "size")
  /\ (pc = "idle" /\ peer = "open" /\ hist.k = "sent" /\ hist.path = A_C) =>
       /\ HasFile(disk, DIR_S1 \o Drop(VPath(A_C), 3))
       /\ disk[DIR_S1 \o Drop(VPath(A_C), 3)] = hist.data

(* C37: every terminator write indexed by the return value of recv stays   *)
(* inside its array of BUFFER_SIZE bytes: the index is in 0..1023.         *)
C37_TerminatorInBounds ==
  hist.array # "none" => hist.index \in 0 .. (BUFFER_SIZE - 1)

(* C37, the connection loop alone.                                         *)
C37_ConnInBounds ==
  hist.array = "buffer" => hist.index \in 0 .. (BUFFER_SIZE - 1)

(* C37, the remote Delete alone.                                           *)
C37_RemoveInBounds ==
  hist.array = "response" => hist.index \in 0 .. (BUFFER_SIZE - 1)

====
